---------------------------- MODULE Spec2Model ----------------------------
(***************************************************************************)
(* A model of gtfs-upcoming: the schedule database                         *)
(* (schedule/database.py), built from a GTFS bundle and queried for the    *)
(* trips due at a stop, and the transit engine (transit.py) that merges    *)
(* the schedule with a GTFS-Realtime feed.                                 *)
(*                                                                         *)
(* Dates are day ordinals (day 0 is a Monday, as date.weekday() counts),   *)
(* datetimes are seconds since day 0 00:00:00 local time, and a text       *)
(* "HH:MM:SS" is the tuple of the integers int() reads from its fields     *)
(* (a text that does not split into three integers is a tuple of another   *)
(* length).  A YYYYMMDD text of calendar.txt or calendar_dates.txt is the  *)
(* day ordinal it denotes.                                                 *)
(***************************************************************************)
EXTENDS Integers, Sequences, FiniteSets, TLC

VARIABLES
    gtfs,            \* the GTFS bundle of data_dir: one sequence of rows per file
    keep_stops,      \* Database._keep_stops
    _stops_db,       \* Database._stops_db:      stop_id -> rows of stop_times.txt
    _trip_db,        \* Database._trip_db:       trip_id -> Trip
    _route_db,       \* Database._route_db:      route_id -> Route
    _calendar_db,    \* Database._calendar_db:   service_id -> row of calendar.txt
    _exceptions_db,  \* Database._exceptions_db: service_id -> (date -> type)
    clock,           \* the wall clock datetime.datetime.now() reads
    loading,         \* the call of loader.Load in progress: its locals, its pool
    http,            \* the HTTP server: its connections and their handlers
    call             \* the last query made: its name, arguments and outcome

vars == <<gtfs, keep_stops, _stops_db, _trip_db, _route_db, _calendar_db,
          _exceptions_db, clock, loading, http, call>>

\* What a query leaves alone: the bundle, the database, the clock and the
\* HTTP server.
db_vars == <<gtfs, keep_stops, _stops_db, _trip_db, _route_db, _calendar_db,
             _exceptions_db, clock, http>>

---------------------------------------------------------------------------
(* Bounds of the model.                                                    *)

\* The dates of the calendar and of the queries of SpecCal are 0..MaxDate.
MaxDate == 2

\* calendar_dates.txt holds at most MaxExceptionRows rows.
MaxExceptionRows == 1

\* stop_times.txt holds at most MaxStopTimes rows in SpecSched.
MaxStopTimes == 2

\* The feed holds at most MaxEntities entities in SpecTransit.
MaxEntities == 2

\* The files of SpecLoad hold every choice of at most MaxFileRows data rows,
\* and one choice of every number of data rows up to MaxLongRows.
MaxFileRows == 2
MaxLongRows == 5

\* loader.MaxThreads and loader.MaxRowsPerChunk, the tunables of the loader
\* (4 and 100000 in the source), scaled to the files of SpecLoad.
MaxThreads == 2
MaxRowsPerChunk == 1

\* The largest hour of an arrival_time text.
MaxHour == 49

\* The most elements of the stop_time_update of an entity of SpecUpdates.
MaxUpdates == 3
MaxFailRows == 4
MaxConnections == 3

---------------------------------------------------------------------------
(* Python values.                                                          *)

\* None, where the code expects an object (a Trip, a Route, a calendar row),
\* and None where it expects a string.
None == [none |-> TRUE]
NoneStr == "None"

\* dict.get(key, default)
DictGet(d, key, default) == IF key \in DOMAIN d THEN d[key] ELSE default

\* The empty dict.
EmptyDict == [k \in {} |-> NoneStr]

Max(S) == CHOOSE x \in S : \A y \in S : y <= x
Min(S) == CHOOSE x \in S : \A y \in S : x <= y

SecondsPerDay == 24 * 60 * 60

\* datetime.datetime.combine(date, time(hour, minute, second))
combine(date, hour, minute, second) ==
    date * SecondsPerDay + hour * 3600 + minute * 60 + second

\* datetime.date()
DateOf(dt) == dt \div SecondsPerDay

\* date.weekday(): monday is 0, sunday is 6
weekday(date) == date % 7

\* datetime.time(hour, minute, second) raises ValueError outside these ranges
ValidTime(hour, minute, second) ==
    /\ hour \in 0..23
    /\ minute \in 0..59
    /\ second \in 0..59

---------------------------------------------------------------------------
(* schedule/database.py: constants.                                        *)

CALENDAR_DAYS ==
    <<"monday", "tuesday", "wednesday", "thursday", "friday", "saturday",
      "sunday">>

CALENDAR_SERVICE_NOT_AVAILABLE == "0"

CALENDAR_EXCEPTION_SERVICE_ADDED == "1"
CALENDAR_EXCEPTION_SERVICE_REMOVED == "2"

---------------------------------------------------------------------------
(* schedule/loader.py and the load of the database.                        *)

\* loader.Load: the rows of the file that have, for every column of keep,
\* a value of that column's accepting set, in file order.
Load(file, keep) ==
    SelectSeq(file, LAMBDA row : \A k \in DOMAIN keep : row[k] \in keep[k])

\* Database._load
_load(filename, keep) == Load(gtfs[filename], keep)

\* _collect with one row kept for a key: the key's last row, with multi in a
\* list of its own.
Collect_LastOfKey(data, key_name, multi) ==
    LET keys == {data[i][key_name] : i \in DOMAIN data}
        last(k) == data[Max({i \in DOMAIN data : data[i][key_name] = k})]
    IN  [k \in keys |-> IF multi THEN <<last(k)>> ELSE last(k)]

\* Database._collect: a dict keyed by the rows' key_name; with multi the list
\* of the key's rows in order, without it the key's last row.
_collect(data, key_name, multi) ==
    LET keys == {data[i][key_name] : i \in DOMAIN data}
    IN  IF multi
        THEN [k \in keys |-> SelectSeq(data, LAMBDA row : row[key_name] = k)]
        ELSE [k \in keys |->
                 data[Max({i \in DOMAIN data : data[i][key_name] = k})]]

\* The iteration order of the dict _collect returns: a key's place is that
\* of its first row.
KeyOrder(data, key_name) ==
    LET first(i) == \A j \in 1..(i - 1) : data[j][key_name] # data[i][key_name]
        firsts == SelectSeq([i \in DOMAIN data |-> i], first)
    IN  [n \in DOMAIN firsts |-> data[firsts[n]][key_name]]

\* Database._load_stops
_load_stops ==
    LET tmp_stop_times ==
            IF Len(keep_stops) = 0
            THEN _load("stop_times.txt", EmptyDict)
            ELSE _load("stop_times.txt",
                       [k \in {"stop_id"} |->
                           {keep_stops[i] : i \in DOMAIN keep_stops}])
    IN  _collect(tmp_stop_times, "stop_id", TRUE)

\* Database._load_trips, given the StopIndex _load_stops built: the pair
\* (trip_db, route_db).
_load_trips(stops) ==
    LET trip_ids == UNION {{stops[s][i].trip_id : i \in DOMAIN stops[s]} :
                           s \in DOMAIN stops}
        only == [k \in {"trip_id"} |-> trip_ids]
        stop_times == _collect(_load("stop_times.txt", only), "trip_id", TRUE)
        routes == _collect(_load("routes.txt", EmptyDict), "route_id", FALSE)
        trip_rows == _load("trips.txt", only)
        trips == _collect(trip_rows, "trip_id", FALSE)
        order == KeyOrder(trip_rows, "trip_id")
        kept == {t \in DOMAIN trips : trips[t].route_id \in DOMAIN routes}
        \* the first trip of the iteration that uses the route
        first_of(route_id) ==
            trips[order[Min({n \in DOMAIN order :
                               /\ order[n] \in kept
                               /\ trips[order[n]].route_id = route_id})]]
        route_db ==
            [r \in {trips[t].route_id : t \in kept} |->
                [route_id |-> r,
                 short_name |-> routes[r].route_short_name,
                 route_type |-> routes[r].route_type,
                 inferred_headsign |-> first_of(r).trip_headsign,
                 inferred_direction_id |-> first_of(r).direction_id,
                 inferred_service_id |-> first_of(r).service_id]]
        trip_db ==
            [t \in kept |->
                [trip_id |-> t,
                 trip_headsign |-> trips[t].trip_headsign,
                 direction_id |-> trips[t].direction_id,
                 service_id |-> trips[t].service_id,
                 route |-> route_db[trips[t].route_id],
                 stop_times |-> DictGet(stop_times, t, << >>)]]
    IN  <<trip_db, route_db>>

\* Database._load_calendar
_load_calendar == _collect(_load("calendar.txt", EmptyDict), "service_id", FALSE)

\* Database._load_exceptions: per service the date -> exception_type dict;
\* a later row of the same service and date overwrites an earlier one.
_load_exceptions ==
    LET dates == _collect(_load("calendar_dates.txt", EmptyDict),
                          "service_id", TRUE)
    IN  [service_id \in DOMAIN dates |->
            LET data == dates[service_id]
            IN  [dt \in {data[i].date : i \in DOMAIN data} |->
                    data[Max({i \in DOMAIN data : data[i].date = dt})]
                        .exception_type]]

\* Database.load: the five tables of the database after load().
Loaded ==
    /\ _stops_db = _load_stops
    /\ _trip_db = _load_trips(_stops_db)[1]
    /\ _route_db = _load_trips(_stops_db)[2]
    /\ _calendar_db = _load_calendar
    /\ _exceptions_db = _load_exceptions

---------------------------------------------------------------------------
(* schedule/loader.py, as it runs: the text of a file is the sequence of   *)
(* its characters, a field the sequence of the characters between two      *)
(* commas, a row the dict of its fields by the names of the header.        *)

\* loader.BROKEN_CHARACTER: the one character U+FEFF
BROKEN_CHARACTER == "U+FEFF"

\* f.readline() at position pos (the place of the next character, from 1):
\* the place of the last character of the line, its newline if it has one.
LineEnd(text, pos) ==
    Min({i \in pos..Len(text) : text[i] = "\n"} \cup {Len(text)})

\* csv.reader on the text from position pos, in the excel dialect: fields
\* are cut at commas and records at newlines outside quotes; a field that
\* starts with a quote runs to its closing quote, commas and newlines in it
\* kept and a doubled quote read as one; a quote elsewhere is a character of
\* the field.  The text that ends inside a quoted field ends the record
\* there.  state is that of the reader, field and fields what it has read of
\* the record, rows the records before it; a blank line is a record of no
\* fields.
RECURSIVE Reader(_, _, _, _, _, _)
Reader(text, pos, state, field, fields, rows) ==
    IF pos > Len(text)
    THEN IF state = "START_RECORD" THEN rows
         ELSE Append(rows, Append(fields, field))
    ELSE
    LET c == text[pos]
    IN  CASE state \in {"START_RECORD", "START_FIELD"} ->
               IF c = "\n"
               THEN Reader(text, pos + 1, "START_RECORD", << >>, << >>,
                           Append(rows, IF state = "START_RECORD" THEN << >>
                                        ELSE Append(fields, << >>)))
               ELSE IF c = "\""
               THEN Reader(text, pos + 1, "IN_QUOTED_FIELD", << >>, fields,
                           rows)
               ELSE IF c = ","
               THEN Reader(text, pos + 1, "START_FIELD", << >>,
                           Append(fields, << >>), rows)
               ELSE Reader(text, pos + 1, "IN_FIELD", <<c>>, fields, rows)
          [] state = "IN_FIELD" ->
               IF c = "\n"
               THEN Reader(text, pos + 1, "START_RECORD", << >>, << >>,
                           Append(rows, Append(fields, field)))
               ELSE IF c = ","
               THEN Reader(text, pos + 1, "START_FIELD", << >>,
                           Append(fields, field), rows)
               ELSE Reader(text, pos + 1, "IN_FIELD", Append(field, c),
                           fields, rows)
          [] state = "IN_QUOTED_FIELD" ->
               IF c = "\""
               THEN Reader(text, pos + 1, "QUOTE_IN_QUOTED_FIELD", field,
                           fields, rows)
               ELSE Reader(text, pos + 1, "IN_QUOTED_FIELD", Append(field, c),
                           fields, rows)
          [] state = "QUOTE_IN_QUOTED_FIELD" ->
               IF c = "\""
               THEN Reader(text, pos + 1, "IN_QUOTED_FIELD", Append(field, c),
                           fields, rows)
               ELSE IF c = ","
               THEN Reader(text, pos + 1, "START_FIELD", << >>,
                           Append(fields, field), rows)
               ELSE IF c = "\n"
               THEN Reader(text, pos + 1, "START_RECORD", << >>, << >>,
                           Append(rows, Append(fields, field)))
               ELSE Reader(text, pos + 1, "IN_FIELD", Append(field, c),
                           fields, rows)

\* csv.DictReader(string_io): the records of the text as dicts keyed by the
\* fields of the first one; a blank line is no row, a field the row does not
\* have reads None.
DictReader(text) ==
    LET dicts(lines) ==
            LET fieldnames == lines[1]
                place(name) ==
                    Max({i \in DOMAIN fieldnames : fieldnames[i] = name})
            IN  IF lines = << >>
                THEN << >>
                ELSE [n \in 1..(Len(lines) - 1) |->
                         [name \in {fieldnames[i] : i \in DOMAIN fieldnames} |->
                             IF place(name) <= Len(lines[n + 1])
                             THEN lines[n + 1][place(name)]
                             ELSE <<NoneStr>>]]
    IN  CHOOSE out \in
            {dicts(lines) : lines \in
                {SelectSeq(Reader(text, 1, "START_RECORD", << >>, << >>,
                                  << >>),
                           LAMBDA record : record # << >>)}} : TRUE

\* load_chunk with the columns of keep ORed: a row matches when one column
\* has an accepted value.
LoadChunk_AnyColumn(string_io, keep) ==
    LET rows == DictReader(string_io)
        match(row) == \E k \in DOMAIN keep : row[k] \in keep[k]
        ret == SelectSeq(rows, match)
    IN  <<ret, Len(rows) - Len(ret)>>

\* loader.load_chunk: the rows that have an accepted value in every column
\* of keep, and the number of the other rows.
load_chunk(string_io, keep) ==
    LET match(row) ==
            \A k \in DOMAIN keep : k \in DOMAIN row /\ row[k] \in keep[k]
    IN  CHOOSE out \in
            {<<SelectSeq(rows, match),
               Len(rows) - Len(SelectSeq(rows, match))>> :
                rows \in {DictReader(string_io)}} : TRUE

\* load_chunk, line 79: keep.items(), the columns of keep in the order the
\* caller put them in.
KeepItems(keep) ==
    SelectSeq(<< <<"k">>, <<"v">> >>, LAMBDA k : k \in DOMAIN keep)

\* load_chunk, lines 79-82, on a row: the column of keep that row[k] raises
\* KeyError for, the columns before it being in the row with an accepted
\* value; the empty set when the row raises nothing.
MissingColumns(row, keep) ==
    LET items == KeepItems(keep)
    IN  {items[j] : j \in
            {j \in DOMAIN items :
                /\ items[j] \notin DOMAIN row
                /\ \A h \in 1..(j - 1) :
                      /\ items[h] \in DOMAIN row
                      /\ row[items[h]] \in keep[items[h]]}}

\* The error load_chunk raises on the chunk, None when it returns: the
\* KeyError of the first row that has a column of keep missing.  An error
\* is an object of its own; chunk tells the errors of the chunks of one Load
\* apart and is filled in where the error is raised.
ChunkError(string_io, keep) ==
    LET raising(rows) ==
            {n \in DOMAIN rows : MissingColumns(rows[n], keep) # {}}
        error(rows) ==
            IF raising(rows) = {}
            THEN None
            ELSE [type |-> "KeyError", chunk |-> 0,
                  key |-> CHOOSE k \in
                              MissingColumns(rows[Min(raising(rows))], keep) :
                              TRUE]
    IN  CHOOSE out \in {error(rows) : rows \in {DictReader(string_io)}} : TRUE

\* The position of the file after f.read(1), with no f.seek(0).
SkipBroken_NoSeek(text) == IF text = << >> THEN 1 ELSE 2

\* Load, lines 115-117: the position of the file after first = f.read(1) and,
\* when first is not BROKEN_CHARACTER, f.seek(0).
SkipBroken(text) ==
    IF text # << >> /\ text[1] = BROKEN_CHARACTER THEN 2 ELSE 1

\* A semaphore of one permit per worker and queued chunk, and one more.
SemaphoreValue_TwoPerWorker(max_workers) == max_workers * 2

\* BufferedExecutor.__init__, line 49: the value of the semaphore.
SemaphoreValue(max_workers) == max_workers * 2 - 1

\* A Future of the pool: its state, the StringIO load_chunk is to read, the
\* value load_chunk returned or the exception it raised, and whether a done
\* callback is registered.
Future(string_io) ==
    [state |-> "pending", string_io |-> string_io, result |-> << << >>, 0 >>,
     exception |-> None, callback |-> FALSE]

\* The workers of the pool; a worker holds the place in futures of the Future
\* it runs, 0 when it is idle.
Workers == 1..MaxThreads

\* Load(filename, keep) is called: the file is open at its start, the pool is
\* made, nothing is read.
Calling(text, keep) ==
    [text |-> text, keep |-> keep, pc |-> "first", pos |-> 1,
     header |-> << >>, count |-> 0, accum |-> << >>, line |-> << >>,
     resume |-> "lines", futures |-> << >>,
     sem |-> SemaphoreValue(MaxThreads),
     workers |-> [w \in Workers |-> 0],
     next |-> 1, ret |-> << >>, discard |-> 0, error |-> None]

\* No call of Load is in progress.
NotLoading == loading = [pc |-> "idle"]

---------------------------------------------------------------------------
(* httpd.py and main.py: the HTTP server.                                  *)

\* HTTPServer, line 127: the class derives from http.server.HTTPServer, a
\* socketserver.TCPServer without socketserver.ThreadingMixIn, so that
\* process_request runs the RequestHandler in the thread of serve_forever.
ThreadingMixIn == FALSE

\* real_main, lines 245-248: the paths registered and their handlers.
_handlers ==
    [path \in {"/upcoming.json", "/scheduled.json", "/live.json", "/debugz"} |->
        CASE path = "/upcoming.json" -> "handle_upcoming"
          [] path = "/scheduled.json" -> "handle_scheduled"
          [] path = "/live.json" -> "handle_live"
          [] path = "/debugz" -> "handle_debug"]

\* HTTPServer.lookup
lookup(path) == DictGet(_handlers, path, NoneStr)

\* The handlers that call the realtime fetch: get_upcoming, get_live and
\* load_from_api read the feed with fetch_fn, an urlopen.
Fetches(handler) ==
    handler \in {"handle_upcoming", "handle_live", "handle_debug"}

\* The server is not made.
NotServing == http = [serving |-> FALSE]

\* http.serve_forever() is called: the socket listens, no connection yet.
\* path is the path each connection asks for, in the order of arrival, pc
\* where the connection is (backlog: made and not accepted; do_GET, fetch,
\* send: in its handler; closed) and code the status it was answered with.
Serving == [serving |-> TRUE, path |-> << >>, pc |-> << >>, code |-> << >>]

\* The connections a RequestHandler is running for.
Handled == {c \in DOMAIN http.pc : http.pc[c] \in {"do_GET", "fetch", "send"}}

\* The connections made that the server has not accepted.
Backlog == {c \in DOMAIN http.pc : http.pc[c] = "backlog"}

\* A client connects and sends GET path.
Connect ==
    /\ http.serving
    /\ Len(http.path) < MaxConnections
    /\ \E path \in DOMAIN _handlers \cup {"/"} :
          http' = [http EXCEPT !.path = Append(http.path, path),
                               !.pc = Append(http.pc, "backlog"),
                               !.code = Append(http.code, 0)]
    /\ UNCHANGED <<gtfs, keep_stops, _stops_db, _trip_db, _route_db,
                   _calendar_db, _exceptions_db, clock, loading, call>>

\* serve_forever: the server accepts the connection that waited longest and
\* processes the request; without ThreadingMixIn it does so itself and is
\* back in serve_forever when the handler has finished.
Accept ==
    /\ http.serving
    /\ Backlog # {}
    /\ ThreadingMixIn \/ Handled = {}
    /\ http' = [http EXCEPT !.pc[Min(Backlog)] = "do_GET"]
    /\ UNCHANGED <<gtfs, keep_stops, _stops_db, _trip_db, _route_db,
                   _calendar_db, _exceptions_db, clock, loading, call>>

\* RequestHandler.do_GET, lines 45-75: an unknown path is answered 404; a
\* handler that reads the feed calls fetch; handle_scheduled answers 200.
DoGET(c) ==
    /\ http.serving
    /\ c \in DOMAIN http.pc
    /\ http.pc[c] = "do_GET"
    /\ LET handler == lookup(http.path[c])
       IN  IF handler = NoneStr
           THEN http' = [http EXCEPT !.pc[c] = "send", !.code[c] = 404]
           ELSE IF Fetches(handler)
           THEN http' = [http EXCEPT !.pc[c] = "fetch"]
           ELSE http' = [http EXCEPT !.pc[c] = "send", !.code[c] = 200]
    /\ UNCHANGED <<gtfs, keep_stops, _stops_db, _trip_db, _route_db,
                   _calendar_db, _exceptions_db, clock, loading, call>>

\* The fetch of the handler returns the feed, and the handler answers 200,
\* or raises, and do_GET answers 500 (lines 65-70).
FetchReturns(c) ==
    /\ http.serving
    /\ c \in DOMAIN http.pc
    /\ http.pc[c] = "fetch"
    /\ \E code \in {200, 500} :
          http' = [http EXCEPT !.pc[c] = "send", !.code[c] = code]
    /\ UNCHANGED <<gtfs, keep_stops, _stops_db, _trip_db, _route_db,
                   _calendar_db, _exceptions_db, clock, loading, call>>

\* RequestHandler.send, lines 99-111: the response is written and the
\* handler finishes.
Send(c) ==
    /\ http.serving
    /\ c \in DOMAIN http.pc
    /\ http.pc[c] = "send"
    /\ http' = [http EXCEPT !.pc[c] = "closed"]
    /\ UNCHANGED <<gtfs, keep_stops, _stops_db, _trip_db, _route_db,
                   _calendar_db, _exceptions_db, clock, loading, call>>

\* Load, lines 115-117
ReadFirst ==
    /\ loading.pc = "first"
    /\ loading' = [loading EXCEPT !.pos = SkipBroken(loading.text),
                                  !.pc = "header"]
    /\ UNCHANGED <<db_vars, call>>

\* Load, lines 120-122: header = f.readline()
ReadHeader ==
    /\ loading.pc = "header"
    /\ LET end == LineEnd(loading.text, loading.pos)
       IN  loading' = [loading EXCEPT
                          !.header = SubSeq(loading.text, loading.pos, end),
                          !.pos = end + 1,
                          !.count = 0,
                          !.accum = << >>,
                          !.pc = "lines"]
    /\ UNCHANGED <<db_vars, call>>

\* Load, lines 124-140, up to a call of pool.submit: one more line is read
\* into accum, or accum is full and is to be submitted first, or the file is
\* at its end and what accum holds is to be submitted.
NextLine ==
    /\ loading.pc = "lines"
    /\ LET end == LineEnd(loading.text, loading.pos)
           line == SubSeq(loading.text, loading.pos, end)
       IN  IF loading.pos > Len(loading.text)
           THEN loading' = [loading EXCEPT
                               !.pc = IF loading.accum # << >>
                                      THEN "acquire" ELSE "collect",
                               !.resume = "collect"]
           ELSE IF loading.count % MaxRowsPerChunk = 0
           THEN IF loading.accum # << >>
                THEN loading' = [loading EXCEPT !.pos = end + 1,
                                                !.line = line,
                                                !.resume = "lines",
                                                !.pc = "acquire"]
                ELSE loading' = [loading EXCEPT
                                    !.pos = end + 1,
                                    !.accum = loading.header \o line,
                                    !.count = 1]
           ELSE loading' = [loading EXCEPT !.pos = end + 1,
                                           !.accum = loading.accum \o line,
                                           !.count = loading.count + 1]
    /\ UNCHANGED <<db_vars, call>>

\* BufferedExecutor.submit, line 52: self._sem.acquire() blocks while the
\* semaphore is 0.
Acquire ==
    /\ loading.pc = "acquire"
    /\ loading.sem > 0
    /\ loading' = [loading EXCEPT !.sem = loading.sem - 1,
                                  !.pc = "pool_submit"]
    /\ UNCHANGED <<db_vars, call>>

\* BufferedExecutor.submit, line 53: the chunk is queued in the pool.
PoolSubmit ==
    /\ loading.pc = "pool_submit"
    /\ loading' = [loading EXCEPT
                      !.futures = Append(loading.futures, Future(loading.accum)),
                      !.pc = "add_done_callback"]
    /\ UNCHANGED <<db_vars, call>>

\* BufferedExecutor.submit, line 54: the callback is registered, or called at
\* once when the Future is done already; then Load goes on, lines 130-135
\* with the line it had read, or to line 142.
AddDoneCallback ==
    /\ loading.pc = "add_done_callback"
    /\ LET i == Len(loading.futures)
           done == loading.futures[i].state = "finished"
       IN  loading' = [loading EXCEPT
                          !.futures[i].callback = ~done,
                          !.sem = IF done THEN loading.sem + 1 ELSE loading.sem,
                          !.accum = IF loading.resume = "lines"
                                    THEN loading.header \o loading.line
                                    ELSE loading.accum,
                          !.count = IF loading.resume = "lines"
                                    THEN 1 ELSE loading.count,
                          !.pc = loading.resume]
    /\ UNCHANGED <<db_vars, call>>

\* Load, lines 142-152: future.result() of the next Future, which blocks
\* until the Future is done and raises the exception of a Future that has
\* one, out of Load; after the last one Load returns ret.
Collect ==
    /\ loading.pc = "collect"
    /\ IF loading.next > Len(loading.futures)
       THEN loading' = [loading EXCEPT !.pc = "done"]
       ELSE /\ loading.futures[loading.next].state = "finished"
            /\ LET result == loading.futures[loading.next].result
                   exception == loading.futures[loading.next].exception
               IN  IF exception # None
                   THEN loading' = [loading EXCEPT !.error = exception,
                                                   !.pc = "raised"]
                   ELSE loading' = [loading EXCEPT
                                       !.ret = loading.ret \o result[1],
                                       !.discard = loading.discard + result[2],
                                       !.next = loading.next + 1]
    /\ UNCHANGED <<db_vars, call>>

\* An idle worker of the pool takes the Future that was queued first.
Start(w) ==
    /\ loading.pc # "idle"
    /\ loading.workers[w] = 0
    /\ \E i \in DOMAIN loading.futures :
          /\ loading.futures[i].state = "pending"
          /\ \A j \in 1..(i - 1) : loading.futures[j].state # "pending"
          /\ loading' = [loading EXCEPT !.futures[i].state = "running",
                                        !.workers[w] = i]
    /\ UNCHANGED <<db_vars, call>>

\* The done callback run for a Future that completed with a value only.
RunsCallback_OnSuccess(future, error) == future.callback /\ error = None

\* BufferedExecutor.submit, line 54: the callback added to the Future is
\* called when the Future completes, with a value or with an exception.
RunsCallback(future, error) == future.callback

\* The worker has run load_chunk: the Future is done, with the value
\* load_chunk returned or with the exception it raised; the worker goes on
\* to the callback when one is registered.
Finish(w) ==
    /\ loading.pc # "idle"
    /\ loading.workers[w] # 0
    /\ LET i == loading.workers[w]
       IN  /\ loading.futures[i].state = "running"
           /\ \E error \in {ChunkError(loading.futures[i].string_io,
                                       loading.keep)} :
              loading' = [loading EXCEPT
                             !.futures[i].state = "finished",
                             !.futures[i].exception =
                                 IF error = None THEN None
                                 ELSE [error EXCEPT !.chunk = i],
                             !.futures[i].result =
                                 IF error # None THEN << << >>, 0 >>
                                 ELSE load_chunk(loading.futures[i].string_io,
                                                 loading.keep),
                             !.workers[w] =
                                 IF RunsCallback(loading.futures[i], error)
                                 THEN i ELSE 0]
    /\ UNCHANGED <<db_vars, call>>

\* The worker calls the done callback, line 54: self._sem.release()
Release(w) ==
    /\ loading.pc # "idle"
    /\ loading.workers[w] # 0
    /\ LET i == loading.workers[w]
       IN  /\ loading.futures[i].state = "finished"
           /\ loading' = [loading EXCEPT !.sem = loading.sem + 1,
                                         !.workers[w] = 0]
    /\ UNCHANGED <<db_vars, call>>

---------------------------------------------------------------------------
(* schedule/database.py: queries.                                          *)

\* Database.get_trip
get_trip(trip_id) == DictGet(_trip_db, trip_id, None)

\* Database.get_route
get_route(route_id) == DictGet(_route_db, route_id, None)

\* _is_valid_service_day with the end of the validity window not checked.
IsValidServiceDay_NoEndDate(dt, trip) ==
    LET service == DictGet(_calendar_db, trip.service_id, None)
    IN  IF service = None
        THEN FALSE
        ELSE IF dt < service.start_date
        THEN FALSE
        ELSE LET day == CALENDAR_DAYS[weekday(dt) + 1]
                 exc == DictGet(DictGet(_exceptions_db, trip.service_id,
                                        EmptyDict), dt, NoneStr)
             IN  IF service[day] = CALENDAR_SERVICE_NOT_AVAILABLE
                 THEN exc = CALENDAR_EXCEPTION_SERVICE_ADDED
                 ELSE exc # CALENDAR_EXCEPTION_SERVICE_REMOVED

\* _is_valid_service_day with the weekly flag not consulted: every day is
\* treated as a day of service.
IsValidServiceDay_NoWeekday(dt, trip) ==
    LET service == DictGet(_calendar_db, trip.service_id, None)
    IN  IF service = None
        THEN FALSE
        ELSE IF dt < service.start_date \/ dt > service.end_date
        THEN FALSE
        ELSE LET exc == DictGet(DictGet(_exceptions_db, trip.service_id,
                                        EmptyDict), dt, NoneStr)
             IN  exc # CALENDAR_EXCEPTION_SERVICE_REMOVED

\* _is_valid_service_day with the exceptions of the service not consulted on
\* a day of service.
IsValidServiceDay_NoRemoved(dt, trip) ==
    LET service == DictGet(_calendar_db, trip.service_id, None)
    IN  IF service = None
        THEN FALSE
        ELSE IF dt < service.start_date \/ dt > service.end_date
        THEN FALSE
        ELSE LET day == CALENDAR_DAYS[weekday(dt) + 1]
                 exc == DictGet(DictGet(_exceptions_db, trip.service_id,
                                        EmptyDict), dt, NoneStr)
             IN  IF service[day] = CALENDAR_SERVICE_NOT_AVAILABLE
                 THEN exc = CALENDAR_EXCEPTION_SERVICE_ADDED
                 ELSE TRUE

\* Database._is_valid_service_day
_is_valid_service_day(dt, trip) ==
    LET service == DictGet(_calendar_db, trip.service_id, None)
    IN  IF service = None
        THEN FALSE
        ELSE IF dt < service.start_date \/ dt > service.end_date
        THEN FALSE
        ELSE LET day == CALENDAR_DAYS[weekday(dt) + 1]
                 exc == DictGet(DictGet(_exceptions_db, trip.service_id,
                                        EmptyDict), dt, NoneStr)
             IN  IF service[day] = CALENDAR_SERVICE_NOT_AVAILABLE
                 THEN exc = CALENDAR_EXCEPTION_SERVICE_ADDED
                 ELSE exc # CALENDAR_EXCEPTION_SERVICE_REMOVED

\* The outcome of a call: a returned value or a raised error.
Return(value) == [kind |-> "return", value |-> value]
Raise(error) == [kind |-> "raise", error |-> error]

\* get_scheduled_for, lines 172-174 and 199-206: the service dates tried for
\* a StopTime, from the day before start to the day of end.
ServiceDates_FromStartDay(start, end) ==
    [i \in 1..(DateOf(end) - DateOf(start) + 1) |-> DateOf(start) + i - 1]

ServiceDates(start, end) ==
    LET start_service_date == DateOf(start) - 1
        end_service_date == DateOf(end)
    IN  [i \in 1..(end_service_date - start_service_date + 1) |->
            start_service_date + i - 1]

\* get_scheduled_for, lines 181-210: the possibilities of StopTime s, one per
\* service date; none when its arrival_time raises ValueError (the fields are
\* not three integers, or do not make a time of day once 24 is taken from an
\* hour >= 24).
Possibles(s, start, end) ==
    LET fields == s.arrival_time
    IN  IF Len(fields) # 3
        THEN << >>
        ELSE LET delta == IF fields[1] >= 24 THEN SecondsPerDay ELSE 0
                 hour == IF fields[1] >= 24 THEN fields[1] - 24 ELSE fields[1]
                 dates == ServiceDates(start, end)
             IN  IF ~ValidTime(hour, fields[2], fields[3])
                 THEN << >>
                 ELSE [i \in DOMAIN dates |->
                          [service_date |-> dates[i],
                           arrival_time |->
                               combine(dates[i], hour, fields[2], fields[3])
                               + delta]]

\* get_scheduled_for, lines 220-221: the arrival is in the window.
InWindow_EndExcluded(arrival_time, start, end) ==
    arrival_time >= start /\ arrival_time < end

InWindow(arrival_time, start, end) ==
    arrival_time >= start /\ arrival_time <= end

\* get_scheduled_for, line 222: ret.append(trip)
Append_Once(ret, trip) ==
    IF \E i \in DOMAIN ret : ret[i] = trip THEN ret ELSE Append(ret, trip)

AppendTrip(ret, trip) == Append(ret, trip)

\* get_scheduled_for, lines 215-222: the possibilities p[n..] of one StopTime
\* added to ret.
RECURSIVE AddPossibles(_, _, _, _, _, _)
AddPossibles(ret, trip_id, p, n, start, end) ==
    IF n > Len(p)
    THEN ret
    ELSE LET trip == get_trip(trip_id)
         IN  IF trip = None
             THEN AddPossibles(ret, trip_id, p, n + 1, start, end)
             ELSE IF /\ _is_valid_service_day(p[n].service_date, trip)
                     /\ InWindow(p[n].arrival_time, start, end)
             THEN AddPossibles(AppendTrip(ret, trip), trip_id, p, n + 1,
                               start, end)
             ELSE AddPossibles(ret, trip_id, p, n + 1, start, end)

\* get_scheduled_for, lines 180-222: the loop over the StopTimes stops[n..].
RECURSIVE AddStops(_, _, _, _, _)
AddStops(ret, stops, n, start, end) ==
    IF n > Len(stops)
    THEN ret
    ELSE AddStops(AddPossibles(ret, stops[n].trip_id,
                               Possibles(stops[n], start, end), 1, start, end),
                  stops, n + 1, start, end)

\* get_scheduled_for with the stop indexed, not looked up: an unknown stop_id
\* raises KeyError.
GetScheduledFor_Indexed(stop_id, start, end) ==
    IF stop_id \notin DOMAIN _stops_db
    THEN Raise("KeyError")
    ELSE IF end < start
    THEN Raise("ValueError")
    ELSE Return(AddStops(<< >>, _stops_db[stop_id], 1, start, end))

\* Database.get_scheduled_for
get_scheduled_for(stop_id, start, end) ==
    LET stops == DictGet(_stops_db, stop_id, << >>)
    IN  IF stops = << >>
        THEN Return(<< >>)
        ELSE IF end < start
        THEN Raise("ValueError")
        ELSE Return(AddStops(<< >>, stops, 1, start, end))

---------------------------------------------------------------------------
(* transit.py: the clock, the conversions and the Upcoming record.         *)
(* A POSIX timestamp of the feed counts the seconds since day 0 00:00:00   *)
(* UTC; local time is UtcOffset ahead of UTC.                              *)

\* transit.now
now == clock

\* The offset of local time from UTC: one hour.
UtcOffset == 60 * 60

\* datetime.datetime.fromtimestamp(timestamp): the local datetime
fromtimestamp(timestamp) == timestamp + UtcOffset

\* datetime.strftime("%H:%M:%S"): the text of the time of day.
strftime(dt) ==
    LET seconds == dt % SecondsPerDay
    IN  <<seconds \div 3600, (seconds % 3600) \div 60, seconds % 60>>

\* parse_time as get_scheduled_for reads an hour of 24 or more: one day on and
\* 24 hours off.
ParseTime_OneDayOn(time_str) ==
    IF Len(time_str) # 3
    THEN Raise("ValueError")
    ELSE LET hour == time_str[1]
             base_date == IF hour >= 24 THEN DateOf(now) + 1 ELSE DateOf(now)
             h == IF hour >= 24 THEN hour - 24 ELSE hour
         IN  IF ValidTime(h, time_str[2], time_str[3])
             THEN Return(combine(base_date, h, time_str[2], time_str[3]))
             ELSE Raise("ValueError")

\* transit.parse_time: the time of day of the text on today's date, moved on
\* by hour / 24 days; ValueError when the text is not three integers or they
\* are no time of day.
parse_time(time_str) ==
    IF Len(time_str) # 3
    THEN Raise("ValueError")
    ELSE LET hour == time_str[1]
             base_date == IF hour >= 24
                          THEN DateOf(now) + (hour \div 24)
                          ELSE DateOf(now)
             h == IF hour >= 24 THEN hour % 24 ELSE hour
         IN  IF ValidTime(h, time_str[2], time_str[3])
             THEN Return(combine(base_date, h, time_str[2], time_str[3]))
             ELSE Raise("ValueError")

\* transit.delta_seconds
delta_seconds(now_time, then) == now_time - then

\* schedule.ROUTE_TYPES
ROUTE_TYPES ==
    [k \in {"0", "1", "2", "3", "4", "5", "6", "7", "11", "12"} |->
        CASE k = "0" -> "TRAM"
          [] k = "1" -> "SUBWAY"
          [] k = "2" -> "RAIL"
          [] k = "3" -> "BUS"
          [] k = "4" -> "FERRY"
          [] k = "5" -> "CABLE_TRAM"
          [] k = "6" -> "AERIAL_LIFT"
          [] k = "7" -> "FUNICULAR"
          [] k = "11" -> "TROLLEYBUS"
          [] k = "12" -> "MONORAIL"]

\* Upcoming.from_trip; KeyError when ROUTE_TYPES has no such route_type.
from_trip(trip, stop_id, source, due, current_datetime, canceled, added_to_schedule) ==
    IF trip.route.route_type \notin DOMAIN ROUTE_TYPES
    THEN Raise("KeyError")
    ELSE Return([trip_id |-> trip.trip_id,
                 route |-> trip.route.short_name,
                 route_type |-> ROUTE_TYPES[trip.route.route_type],
                 headsign |-> trip.trip_headsign,
                 direction |-> trip.direction_id,
                 stop_id |-> stop_id,
                 due_time |-> strftime(due),
                 due_in_seconds |-> delta_seconds(due, current_datetime),
                 source |-> source,
                 canceled |-> canceled,
                 added_to_schedule |-> added_to_schedule])

\* x in list
InList(x, list) == \E i \in DOMAIN list : list[i] = x

\* The list as it was appended to, not sorted.
sorted_AsAppended(ret) == ret

\* sorted(ret, key=lambda x: x.due_in_seconds): a stable sort, entries of
\* equal due_in_seconds keep their order.  The entry at place i goes to the
\* place after the entries that are due earlier and the earlier entries due
\* at the same time.
sorted(ret) ==
    LET before(i) ==
            {j \in DOMAIN ret :
                \/ ret[j].due_in_seconds < ret[i].due_in_seconds
                \/ /\ ret[j].due_in_seconds = ret[i].due_in_seconds
                   /\ j < i}
    IN  [n \in DOMAIN ret |->
            ret[CHOOSE i \in DOMAIN ret : Cardinality(before(i)) = n - 1]]

---------------------------------------------------------------------------
(* transit.py: Transit.get_scheduled.                                      *)

\* get_scheduled, lines 189-200: the entries of trips[n..], the trips
\* scheduled at stop_id, added to ret.
RECURSIVE ScheduledTrips(_, _, _, _)
ScheduledTrips(ret, trips, n, stop_id) ==
    IF n > Len(trips)
    THEN Return(ret)
    ELSE LET trip == trips[n]
             at == {i \in DOMAIN trip.stop_times :
                       trip.stop_times[i].stop_id = stop_id}
         IN  IF at = {}
             THEN ScheduledTrips(ret, trips, n + 1, stop_id)
             ELSE LET due == parse_time(trip.stop_times[Min(at)].arrival_time)
                      upcoming ==
                          from_trip(trip, stop_id, "SCHEDULE", due.value, now,
                                    FALSE, FALSE)
                  IN  IF due.kind = "raise" THEN due
                      ELSE IF upcoming.kind = "raise" THEN upcoming
                      ELSE ScheduledTrips(Append(ret, upcoming.value), trips,
                                          n + 1, stop_id)

\* get_scheduled, lines 186-200: the loop over interesting_stops[n..].
RECURSIVE ScheduledStops(_, _, _)
ScheduledStops(ret, interesting_stops, n) ==
    IF n > Len(interesting_stops)
    THEN Return(ret)
    ELSE LET start == now
             end == now + 120 * 60
             stop_id == interesting_stops[n]
             trips == get_scheduled_for(stop_id, start, end)
             added == ScheduledTrips(ret, trips.value, 1, stop_id)
         IN  IF trips.kind = "raise" THEN trips
             ELSE IF added.kind = "raise" THEN added
             ELSE ScheduledStops(added.value, interesting_stops, n + 1)

\* Transit.get_scheduled
get_scheduled(interesting_stops) ==
    LET ret == ScheduledStops(<< >>, interesting_stops, 1)
    IN  IF ret.kind = "raise" THEN ret ELSE Return(sorted(ret.value))

---------------------------------------------------------------------------
(* transit.py: Transit.get_live.  A FeedMessage is [entity |-> the list of *)
(* its entities]; a message field that is not set is None, and a scalar    *)
(* field that is not set reads as 0 with its has_ flag false.              *)

\* stu.HasField('arrival') and stu.arrival.HasField('delay'), and so on.
HasDelay(event) == event # None /\ event.has_delay
HasTime(event) == event # None /\ event.has_time

\* _build_trip_from_update reading arrival.time only.
BuildTripFromUpdate_ArrivalOnly(tu, interesting_stops) ==
    LET trip_id == tu.trip.trip_id
        route == get_route(tu.trip.route_id)
        time_of(stu) == IF HasTime(stu.arrival) THEN stu.arrival.time ELSE 0
        used == SelectSeq(tu.stop_time_update,
                          LAMBDA stu : /\ InList(stu.stop_id, interesting_stops)
                                       /\ time_of(stu) # 0)
        stop_times ==
            [i \in DOMAIN used |->
                [trip_id |-> trip_id,
                 stop_id |-> used[i].stop_id,
                 stop_sequence |-> used[i].stop_sequence,
                 arrival_time |-> strftime(fromtimestamp(time_of(used[i]))),
                 departure_time |-> strftime(fromtimestamp(time_of(used[i])))]]
    IN  IF route = None \/ stop_times = << >>
        THEN None
        ELSE [trip_id |-> trip_id,
              trip_headsign |-> route.inferred_headsign,
              direction_id |-> route.inferred_direction_id,
              service_id |-> route.inferred_service_id,
              route |-> route,
              stop_times |-> stop_times]

\* Transit._build_trip_from_update: the Trip of an ADDED trip_update, made of
\* its stop_time_updates at interesting stops that carry a time (departure.time
\* before arrival.time; a time of 0 counts as none); None when the route is not
\* known or no stop_time_update is left.
_build_trip_from_update(tu, interesting_stops) ==
    LET trip_id == tu.trip.trip_id
        route == get_route(tu.trip.route_id)
        time_of(stu) == IF HasTime(stu.departure) THEN stu.departure.time
                        ELSE IF HasTime(stu.arrival) THEN stu.arrival.time
                        ELSE 0
        used == SelectSeq(tu.stop_time_update,
                          LAMBDA stu : /\ InList(stu.stop_id, interesting_stops)
                                       /\ time_of(stu) # 0)
        stop_times ==
            [i \in DOMAIN used |->
                [trip_id |-> trip_id,
                 stop_id |-> used[i].stop_id,
                 stop_sequence |-> used[i].stop_sequence,
                 arrival_time |-> strftime(fromtimestamp(time_of(used[i]))),
                 departure_time |-> strftime(fromtimestamp(time_of(used[i])))]]
    IN  IF route = None \/ stop_times = << >>
        THEN None
        ELSE [trip_id |-> trip_id,
              trip_headsign |-> route.inferred_headsign,
              direction_id |-> route.inferred_direction_id,
              service_id |-> route.inferred_service_id,
              route |-> route,
              stop_times |-> stop_times]

\* The loop over the stop_time_updates with the ones past sequence passed
\* over, the ones after them read.
RECURSIVE UpdatedArrival_SkipPast(_, _, _, _)
UpdatedArrival_SkipPast(updated_arrival_time, stop_time_update, n, sequence) ==
    IF n > Len(stop_time_update)
    THEN updated_arrival_time
    ELSE LET stu == stop_time_update[n]
             delayed == IF HasDelay(stu.arrival)
                        THEN updated_arrival_time + stu.arrival.delay
                        ELSE updated_arrival_time
             timed == IF HasTime(stu.arrival)
                      THEN fromtimestamp(stu.arrival.time)
                      ELSE delayed
         IN  UpdatedArrival_SkipPast(
                 IF stu.stop_sequence <= sequence THEN timed
                 ELSE updated_arrival_time,
                 stop_time_update, n + 1, sequence)

\* get_live, lines 266-279: the arrival after the stop_time_updates
\* stop_time_update[n..], read up to the first one past sequence.
RECURSIVE UpdatedArrival(_, _, _, _)
UpdatedArrival(updated_arrival_time, stop_time_update, n, sequence) ==
    IF n > Len(stop_time_update)
    THEN updated_arrival_time
    ELSE LET stu == stop_time_update[n]
             delayed == IF HasDelay(stu.arrival)
                        THEN updated_arrival_time + stu.arrival.delay
                        ELSE updated_arrival_time
             timed == IF HasTime(stu.arrival)
                      THEN fromtimestamp(stu.arrival.time)
                      ELSE delayed
         IN  IF stu.stop_sequence <= sequence
             THEN UpdatedArrival(timed, stop_time_update, n + 1, sequence)
             ELSE updated_arrival_time

\* The check made on the arrival the schedule gives.
Passed_Scheduled(current, arrival_time, updated_arrival_time) ==
    current > arrival_time

\* get_live, line 281: the vehicle has passed the stop, by the updated
\* arrival; the arrival of the schedule is not read.
Passed(current, arrival_time, updated_arrival_time) ==
    current > updated_arrival_time

\* get_live, lines 223-300: what one entity adds to ret, no entry or one.
LiveEntry(entity, interesting_stops, current) ==
    IF entity.trip_update = None
    THEN Return(<< >>)
    ELSE
    LET trip_update == entity.trip_update
        trip == trip_update.trip
        scheduled == trip.schedule_relationship = "SCHEDULED"
        canceled == trip.schedule_relationship = "CANCELED"
        added == trip.schedule_relationship = "ADDED"
        found == get_trip(trip.trip_id)
        trip_from_db ==
            IF found = None /\ added
            THEN _build_trip_from_update(trip_update, interesting_stops)
            ELSE found
    IN  IF trip_from_db = None \/ ~(scheduled \/ canceled \/ added)
        THEN Return(<< >>)
        ELSE
        LET at == {i \in DOMAIN trip_from_db.stop_times :
                      InList(trip_from_db.stop_times[i].stop_id,
                             interesting_stops)}
            stop_time == trip_from_db.stop_times[Min(at)]
            stop_id == IF at = {} THEN "" ELSE stop_time.stop_id
            sequence == IF at = {} THEN -1 ELSE stop_time.stop_sequence
            arrival_time == IF at = {}
                            THEN Return(fromtimestamp(1))
                            ELSE parse_time(stop_time.arrival_time)
            updated_arrival_time ==
                IF scheduled
                THEN UpdatedArrival(arrival_time.value,
                                    trip_update.stop_time_update, 1, sequence)
                ELSE arrival_time.value
            upcoming == from_trip(trip_from_db, stop_id, "LIVE",
                                  updated_arrival_time, current, canceled,
                                  added)
        IN  IF arrival_time.kind = "raise" THEN arrival_time
            ELSE IF /\ scheduled
                    /\ Passed(current, arrival_time.value, updated_arrival_time)
            THEN Return(<< >>)
            ELSE IF upcoming.kind = "raise" THEN upcoming
            ELSE Return(<<upcoming.value>>)

\* The loop over the entities left at the first entity that gives no entry.
RECURSIVE LiveEntities_StopAtSkipped(_, _, _, _, _)
LiveEntities_StopAtSkipped(ret, entity, n, interesting_stops, current) ==
    IF n > Len(entity)
    THEN Return(ret)
    ELSE LET entry == LiveEntry(entity[n], interesting_stops, current)
         IN  IF entry.kind = "raise" THEN entry
             ELSE IF entry.value = << >> THEN Return(ret)
             ELSE LiveEntities_StopAtSkipped(ret \o entry.value, entity,
                                             n + 1, interesting_stops, current)

\* get_live, lines 222-300: the loop over the entities entity[n..].
RECURSIVE LiveEntities(_, _, _, _, _)
LiveEntities(ret, entity, n, interesting_stops, current) ==
    IF n > Len(entity)
    THEN Return(ret)
    ELSE LET entry == LiveEntry(entity[n], interesting_stops, current)
         IN  IF entry.kind = "raise" THEN entry
             ELSE LiveEntities(ret \o entry.value, entity, n + 1,
                               interesting_stops, current)

\* Transit.get_live, on the FeedMessage resp that load_from_api returns.
get_live(resp, interesting_stops) ==
    LiveEntities(<< >>, resp.entity, 1, interesting_stops, now)

\* get_live with the Trip it builds for an ADDED entity put into the trip
\* table under the entity's trip_id.
TripsAfterLive_Inserted(resp, interesting_stops) ==
    LET built ==
            {n \in DOMAIN resp.entity :
                /\ resp.entity[n].trip_update # None
                /\ resp.entity[n].trip_update.trip.schedule_relationship
                      = "ADDED"
                /\ get_trip(resp.entity[n].trip_update.trip.trip_id) = None
                /\ _build_trip_from_update(resp.entity[n].trip_update,
                                           interesting_stops) # None}
        ids == {resp.entity[n].trip_update.trip.trip_id : n \in built}
    IN  [t \in DOMAIN _trip_db \cup ids |->
            IF t \in DOMAIN _trip_db THEN _trip_db[t]
            ELSE _build_trip_from_update(
                     resp.entity[CHOOSE n \in built :
                         resp.entity[n].trip_update.trip.trip_id = t]
                         .trip_update,
                     interesting_stops)]

\* The trip table after get_live: the Trip of the database, or the one built
\* for an ADDED entity, is held in the local trip_from_db only (lines
\* 236-239); get_live assigns to nothing of the database.
TripsAfterLive(resp, interesting_stops) == _trip_db

---------------------------------------------------------------------------
(* transit.py: Transit.get_upcoming.                                       *)

\* known_trips.values(): one entry per trip_id of scheduled, the last one,
\* in the order the trip_ids come first.
KnownTrips(scheduled) ==
    LET first(i) ==
            \A j \in 1..(i - 1) : scheduled[j].trip_id # scheduled[i].trip_id
        firsts == SelectSeq([i \in DOMAIN scheduled |-> i], first)
    IN  [n \in DOMAIN firsts |->
            scheduled[Max({j \in DOMAIN scheduled :
                             scheduled[j].trip_id
                                 = scheduled[firsts[n]].trip_id})]]

\* ret with every entry of known_trips added, those of the live trips too.
LiveThenKnown_AllKnown(scheduled, live) == live \o KnownTrips(scheduled)

\* get_upcoming, lines 331-338: ret, the live entries followed by the
\* known_trips whose trip_id no live entry has.
LiveThenKnown(scheduled, live) ==
    LET in_live(trip_id) == \E i \in DOMAIN live : live[i].trip_id = trip_id
    IN  live \o SelectSeq(KnownTrips(scheduled),
                          LAMBDA s : ~in_live(s.trip_id))

\* get_upcoming that does not remove the canceled entries.
GetUpcoming_KeepCanceled(resp, interesting_stops) ==
    CHOOSE out \in
        {IF scheduled.kind = "raise" THEN scheduled
         ELSE IF live.kind = "raise" THEN live
         ELSE Return(sorted(LiveThenKnown(scheduled.value, live.value))) :
             scheduled \in {get_scheduled(interesting_stops)},
             live \in {get_live(resp, interesting_stops)}} : TRUE

\* Transit.get_upcoming: scheduled and live are the outcomes of its calls of
\* get_scheduled and get_live, each made once.
get_upcoming(resp, interesting_stops) ==
    CHOOSE out \in
        {IF scheduled.kind = "raise" THEN scheduled
         ELSE IF live.kind = "raise" THEN live
         ELSE Return(sorted(SelectSeq(LiveThenKnown(scheduled.value,
                                                    live.value),
                                      LAMBDA t : ~t.canceled))) :
             scheduled \in {get_scheduled(interesting_stops)},
             live \in {get_live(resp, interesting_stops)}} : TRUE

---------------------------------------------------------------------------
(* realtime/fetch.py: the fetchers and make_fetcher.                       *)

\* IrelandNTA.TEST_URL, IrelandNTA.PROD_URL
TEST_URL == "https://api.nationaltransport.ie/gtfsrtest/"
PROD_URL == "https://api.nationaltransport.ie/gtfsr/v2/TripUpdates"

\* VicRoads.METROBUS_URL, VicRoads.METROTRAIN_URL, VicRoads.YARRATRAMS_URL
METROBUS_URL == "https://data-exchange-api.vicroads.vic.gov.au/opendata/v1/gtfsr/metrobus-tripupdates"
METROTRAIN_URL == "https://data-exchange-api.vicroads.vic.gov.au/opendata/v1/gtfsr/metrotrain-tripupdates"
YARRATRAMS_URL == "https://data-exchange-api.vicroads.vic.gov.au/opendata/gtfsr/v1/tram/tripupdates"

\* IrelandNTA(api_key, url), VicRoads(api_key, url)
IrelandNTA(api_key, url) ==
    [class |-> "IrelandNTA", api_key |-> api_key, url |-> url]
VicRoads(api_key, url) ==
    [class |-> "VicRoads", api_key |-> api_key, url |-> url]

\* fetch.make_fetcher
make_fetcher(provider, env, api_key) ==
    IF provider = "nta"
    THEN IrelandNTA(api_key, IF env = "prod" THEN PROD_URL ELSE TEST_URL)
    ELSE IF provider = "vicroads"
    THEN CASE env = "metrobus" -> VicRoads(api_key, METROBUS_URL)
           [] env = "metrotrain" -> VicRoads(api_key, METROTRAIN_URL)
           [] env = "tram" -> VicRoads(api_key, YARRATRAMS_URL)
           [] OTHER -> None
    ELSE None

---------------------------------------------------------------------------
(* The bundles the specifications draw from.                               *)

Dates == 0..MaxDate

StopTimeRow(trip_id, stop_id, stop_sequence, arrival_time) ==
    [trip_id |-> trip_id, stop_id |-> stop_id,
     stop_sequence |-> stop_sequence, arrival_time |-> arrival_time]

TripRow(trip_id, route_id, service_id, trip_headsign, direction_id) ==
    [trip_id |-> trip_id, route_id |-> route_id, service_id |-> service_id,
     trip_headsign |-> trip_headsign, direction_id |-> direction_id]

RouteRow(route_id, route_short_name, route_type) ==
    [route_id |-> route_id, route_short_name |-> route_short_name,
     route_type |-> route_type]

\* A row of calendar.txt: flags[i] is the flag of weekday i - 1.
CalendarRow(service_id, flags, start_date, end_date) ==
    [service_id |-> service_id,
     monday |-> flags[1], tuesday |-> flags[2], wednesday |-> flags[3],
     thursday |-> flags[4], friday |-> flags[5], saturday |-> flags[6],
     sunday |-> flags[7],
     start_date |-> start_date, end_date |-> end_date]

\* The weekly patterns: every flag of a weekday some date of Dates falls on
\* is free, the others are "0".
WeekFlags ==
    {f \in [1..7 -> {"0", "1"}] : \A i \in 1..7 : i - 1 > MaxDate => f[i] = "0"}

ExceptionRows(service_ids) ==
    [service_id : service_ids, date : Dates,
     exception_type : {CALENDAR_EXCEPTION_SERVICE_ADDED,
                       CALENDAR_EXCEPTION_SERVICE_REMOVED}]

\* The sequences of at most n elements of S.
SeqsUpTo(S, n) == UNION {[1..k -> S] : k \in 0..n}

\* The bundle with these five files.
Bundle(stop_times, trips, routes, calendar, calendar_dates) ==
    [k \in {"stop_times.txt", "trips.txt", "routes.txt", "calendar.txt",
            "calendar_dates.txt"} |->
        CASE k = "stop_times.txt" -> stop_times
          [] k = "trips.txt" -> trips
          [] k = "routes.txt" -> routes
          [] k = "calendar.txt" -> calendar
          [] k = "calendar_dates.txt" -> calendar_dates]

---------------------------------------------------------------------------
(* SpecCal: a database whose calendar and exceptions vary, queried with    *)
(* _is_valid_service_day (which does not read the clock).  Trip T1 runs on service S1; trip T2 names the   *)
(* service S2, which calendar.txt does not hold.  The queries are made one *)
(* after the other: call holds the query whose outcome the caller has not  *)
(* taken yet.                                                              *)

InitCal ==
    /\ \E flags \in WeekFlags, start_date \in Dates, end_date \in Dates,
          exceptions \in SeqsUpTo(ExceptionRows({"S1"}), MaxExceptionRows) :
          gtfs = Bundle(<<StopTimeRow("T1", "P", 1, <<7, 0, 0>>),
                          StopTimeRow("T2", "P", 1, <<8, 0, 0>>)>>,
                        <<TripRow("T1", "R1", "S1", "H1", "0"),
                          TripRow("T2", "R1", "S2", "H2", "1")>>,
                        <<RouteRow("R1", "7", "3")>>,
                        <<CalendarRow("S1", flags, start_date, end_date)>>,
                        exceptions)
    /\ keep_stops = << >>
    /\ Loaded
    /\ NotServing
    /\ clock = 0
    /\ NotLoading
    /\ call = [op |-> "none"]

\* The caller takes the outcome of its query; the next query can be made.
TakeResult ==
    /\ call.op # "none"
    /\ call' = [op |-> "none"]
    /\ UNCHANGED <<db_vars, loading>>

IsValidServiceDay ==
    /\ call.op = "none"
    /\ \E dt \in Dates, trip_id \in DOMAIN _trip_db :
          call' = [op |-> "_is_valid_service_day", dt |-> dt,
                   trip_id |-> trip_id,
                   ret |-> _is_valid_service_day(dt, _trip_db[trip_id])]
    /\ UNCHANGED <<db_vars, loading>>

NextCal == IsValidServiceDay \/ TakeResult

SpecCal == InitCal /\ [][NextCal]_vars

---------------------------------------------------------------------------
(* SpecSched: a database whose StopTimes at stop P vary, queried with      *)
(* get_scheduled_for.  Trip T1 runs on service S1, whose weekly pattern    *)
(* varies; trip T2 runs on service S2, every day; trip T3 names a route    *)
(* routes.txt does not hold, so load() drops it and its StopTimes stay in  *)
(* the StopIndex without a Trip.  No row calls at stop Q.                  *)

\* The arrival_time texts: 23:00:00, 25:00:00 and 01:00:00, 48:00:00 (an
\* hour that is no time of day with 24 taken off) and the empty text.
SchedStopTimeRows ==
    {StopTimeRow("T1", "P", 1, a) :
        a \in {<<1, 0, 0>>, <<23, 0, 0>>, <<25, 0, 0>>, <<48, 0, 0>>, << >>}}
    \cup {StopTimeRow("T2", "P", 1, a) : a \in {<<1, 0, 0>>, <<25, 0, 0>>}}
    \cup {StopTimeRow("T3", "P", 1, <<1, 0, 0>>)}

\* The weekly patterns of S1: monday to wednesday free, the rest "1".
SchedWeekFlags ==
    {f \in [1..7 -> {"0", "1"}] : \A i \in 4..7 : f[i] = "1"}

\* The instants a query window starts or ends at.
QueryTimes == {combine(d, h, 0, 0) : d \in {1, 2}, h \in {0, 1, 23}}

InitSched ==
    /\ \E stop_times \in SeqsUpTo(SchedStopTimeRows, MaxStopTimes),
          flags \in SchedWeekFlags :
          gtfs = Bundle(stop_times,
                        <<TripRow("T1", "R1", "S1", "H1", "0"),
                          TripRow("T2", "R1", "S2", "H2", "1"),
                          TripRow("T3", "RX", "S2", "H3", "1")>>,
                        <<RouteRow("R1", "7", "3")>>,
                        <<CalendarRow("S1", flags, 0, 3),
                          CalendarRow("S2", [i \in 1..7 |-> "1"], 0, 3)>>,
                        << >>)
    /\ keep_stops = << >>
    /\ Loaded
    /\ NotServing
    /\ clock = 0
    /\ NotLoading
    /\ call = [op |-> "none"]

GetScheduledFor ==
    /\ call.op = "none"
    /\ \E stop_id \in {"P", "Q"}, start \in QueryTimes, end \in QueryTimes :
          call' = [op |-> "get_scheduled_for", stop_id |-> stop_id,
                   start |-> start, end |-> end,
                   out |-> get_scheduled_for(stop_id, start, end)]
    /\ UNCHANGED <<db_vars, loading>>

NextSched == GetScheduledFor \/ TakeResult

SpecSched == InitSched /\ [][NextSched]_vars

---------------------------------------------------------------------------
(* SpecTransit: a database of three trips on one service that runs every   *)
(* day, a clock on day 1, and a feed of at most MaxEntities entities,      *)
(* queried with get_scheduled, get_live and get_upcoming.  T1 calls at P   *)
(* (07:20) then Q (07:40), T2 at Q (07:50) then P (08:00), T3 at Z only;   *)
(* TX is in no file, and RX is no route.                                   *)

\* The POSIX timestamp of a local datetime.
Posix(local) == local - UtcOffset

\* A StopTimeEvent with a delay, with a time, and one with neither.
Delay(delay) ==
    [has_delay |-> TRUE, delay |-> delay, has_time |-> FALSE, time |-> 0]
Time(time) ==
    [has_delay |-> FALSE, delay |-> 0, has_time |-> TRUE, time |-> time]
NoEvent == [has_delay |-> FALSE, delay |-> 0, has_time |-> FALSE, time |-> 0]

StopTimeUpdate(stop_sequence, stop_id, arrival, departure) ==
    [stop_sequence |-> stop_sequence, stop_id |-> stop_id,
     arrival |-> arrival, departure |-> departure]

\* A FeedEntity with a trip_update.
TripUpdate(trip_id, route_id, schedule_relationship, stop_time_update) ==
    [trip_update |->
        [trip |-> [trip_id |-> trip_id, route_id |-> route_id,
                   schedule_relationship |-> schedule_relationship],
         stop_time_update |-> stop_time_update]]

\* A FeedEntity without one (a vehicle position, an alert).
NoTripUpdate == [trip_update |-> None]

\* The stop_time_updates of the SCHEDULED entities (their stop_id is not set,
\* get_live reads their stop_sequence only): none, four and fifteen minutes
\* late at the first stop, an arrival at 06:50 and one at 07:30 at the first
\* stop, half an hour early at the second stop.
ScheduledUpdates ==
    {<< >>,
     <<StopTimeUpdate(1, "", Delay(240), None)>>,
     <<StopTimeUpdate(1, "", Delay(900), None)>>,
     <<StopTimeUpdate(1, "", Time(Posix(combine(1, 6, 50, 0))), None)>>,
     <<StopTimeUpdate(1, "", Time(Posix(combine(1, 7, 30, 0))), None)>>,
     <<StopTimeUpdate(2, "", Delay(-1800), None)>>}

\* The stop_time_updates of the ADDED entities: none, P with arrival.time
\* 07:45, Q with departure.time 08:15, P with an arrival that has no time and
\* no departure.
AddedUpdates ==
    {<< >>,
     <<StopTimeUpdate(1, "P", Time(Posix(combine(1, 7, 45, 0))), None)>>,
     <<StopTimeUpdate(1, "Q", None, Time(Posix(combine(1, 8, 15, 0))))>>,
     <<StopTimeUpdate(1, "P", NoEvent, None)>>}

FeedEntities ==
    {NoTripUpdate}
    \cup {TripUpdate(t, "R1", "SCHEDULED", u) :
             t \in {"T1", "T2"}, u \in ScheduledUpdates}
    \cup {TripUpdate("TX", "R1", "SCHEDULED", << >>)}
    \cup {TripUpdate(t, "R1", "CANCELED", << >>) :
             t \in {"T1", "T2", "T3", "TX"}}
    \cup {TripUpdate("TX", "R1", "ADDED", u) : u \in AddedUpdates}
    \cup {TripUpdate("TX", r, "ADDED", u) :
             r \in {"R2", "RX"},
             u \in {<<StopTimeUpdate(1, "P",
                                     Time(Posix(combine(1, 7, 45, 0))),
                                     None)>>}}
    \cup {TripUpdate("T1", "R1", "ADDED", << >>),
          TripUpdate("T1", "R1", "UNSCHEDULED", << >>)}

\* The feeds load_from_api returns.
Feeds == {[entity |-> e] : e \in SeqsUpTo(FeedEntities, MaxEntities)}

\* The lists of interesting stops of a query.
InterestingStops == {<<"P">>, <<"Q">>, <<"P", "Q">>}

InitTransit ==
    /\ gtfs = Bundle(<<StopTimeRow("T1", "P", 1, <<7, 20, 0>>),
                       StopTimeRow("T1", "Q", 2, <<7, 40, 0>>),
                       StopTimeRow("T2", "Q", 1, <<7, 50, 0>>),
                       StopTimeRow("T2", "P", 2, <<8, 0, 0>>),
                       StopTimeRow("T3", "Z", 1, <<7, 10, 0>>)>>,
                     <<TripRow("T1", "R1", "S1", "H1", "0"),
                       TripRow("T2", "R1", "S1", "H2", "1"),
                       TripRow("T3", "R2", "S1", "H3", "0")>>,
                     <<RouteRow("R1", "7", "3"), RouteRow("R2", "9", "0")>>,
                     <<CalendarRow("S1", [i \in 1..7 |-> "1"], 0, 6)>>,
                     << >>)
    /\ keep_stops = << >>
    /\ Loaded
    /\ NotServing
    /\ clock \in {combine(1, 7, 0, 0), combine(1, 7, 30, 0)}
    /\ NotLoading
    /\ call = [op |-> "none"]

GetScheduled ==
    /\ call.op = "none"
    /\ \E interesting_stops \in InterestingStops :
          call' = [op |-> "get_scheduled",
                   interesting_stops |-> interesting_stops,
                   out |-> get_scheduled(interesting_stops)]
    /\ UNCHANGED <<db_vars, loading>>

GetLive ==
    /\ call.op = "none"
    /\ \E resp \in Feeds, interesting_stops \in InterestingStops :
          call' = [op |-> "get_live", resp |-> resp,
                   interesting_stops |-> interesting_stops,
                   out |-> get_live(resp, interesting_stops)]
    /\ UNCHANGED <<db_vars, loading>>

\* get_upcoming; live is what its call of get_live returned.
GetUpcoming ==
    /\ call.op = "none"
    /\ \E resp \in Feeds, interesting_stops \in InterestingStops :
          call' = [op |-> "get_upcoming", resp |-> resp,
                   interesting_stops |-> interesting_stops,
                   live |-> get_live(resp, interesting_stops),
                   out |-> get_upcoming(resp, interesting_stops)]
    /\ UNCHANGED <<db_vars, loading>>

NextTransit == GetScheduled \/ GetLive \/ GetUpcoming \/ TakeResult

SpecTransit == InitTransit /\ [][NextTransit]_vars

---------------------------------------------------------------------------
(* SpecQueries: databases loaded from bundles whose stop_times.txt varies  *)
(* in its rows and in their order, with and without a list of stops to     *)
(* keep, and then queried with the seven queries.  Trip T1 calls at P      *)
(* (stop_sequence 1, 07:20) and at Q (2, 07:40); trip T3 names the route   *)
(* RX, which routes.txt does not hold; trip T4 is in no row of trips.txt;  *)
(* trip T2 has no StopTime.  It is 07:00 on day 1.                         *)

QueryStopTimeRows ==
    {StopTimeRow("T1", "P", 1, <<7, 20, 0>>),
     StopTimeRow("T1", "Q", 2, <<7, 40, 0>>),
     StopTimeRow("T3", "P", 1, <<7, 25, 0>>),
     StopTimeRow("T4", "Q", 1, <<7, 35, 0>>)}

QueryEntities ==
    {TripUpdate("T1", "R1", "SCHEDULED", << >>),
     TripUpdate("T1", "R1", "CANCELED", << >>),
     TripUpdate("T4", "R1", "SCHEDULED", << >>),
     TripUpdate("TX", "R1", "ADDED",
                <<StopTimeUpdate(1, "P", Time(Posix(combine(1, 7, 45, 0))),
                                 None)>>)}

QueryFeeds == {[entity |-> e] : e \in SeqsUpTo(QueryEntities, MaxEntities)}

InitQueries ==
    /\ \E stop_times \in SeqsUpTo(QueryStopTimeRows, MaxStopTimes) :
          gtfs = Bundle(stop_times,
                        <<TripRow("T1", "R1", "S1", "H1", "0"),
                          TripRow("T2", "R1", "S1", "H2", "1"),
                          TripRow("T3", "RX", "S1", "H3", "0")>>,
                        <<RouteRow("R1", "7", "3")>>,
                        <<CalendarRow("S1", [i \in 1..7 |-> "1"], 0, 6)>>,
                        << >>)
    /\ keep_stops \in {<< >>, <<"P">>}
    /\ Loaded
    /\ NotServing
    /\ clock = combine(1, 7, 0, 0)
    /\ NotLoading
    /\ call = [op |-> "none"]

GetTrip ==
    /\ call.op = "none"
    /\ \E trip_id \in {"T1", "T2", "T3", "T4", "TX"} :
          call' = [op |-> "get_trip", trip_id |-> trip_id,
                   out |-> get_trip(trip_id)]
    /\ UNCHANGED <<db_vars, loading>>

GetRoute ==
    /\ call.op = "none"
    /\ \E route_id \in {"R1", "RX"} :
          call' = [op |-> "get_route", route_id |-> route_id,
                   out |-> get_route(route_id)]
    /\ UNCHANGED <<db_vars, loading>>

\* get_live on a feed of QueryFeeds.
QueryLive ==
    /\ call.op = "none"
    /\ \E resp \in QueryFeeds, interesting_stops \in InterestingStops :
          /\ call' = [op |-> "get_live", resp |-> resp,
                      interesting_stops |-> interesting_stops,
                      out |-> get_live(resp, interesting_stops)]
          /\ _trip_db' = TripsAfterLive(resp, interesting_stops)
    /\ UNCHANGED <<gtfs, keep_stops, _stops_db, _route_db, _calendar_db,
                   _exceptions_db, clock, loading, http>>

\* get_upcoming on a feed of QueryFeeds; it calls get_live.
QueryUpcoming ==
    /\ call.op = "none"
    /\ \E resp \in QueryFeeds, interesting_stops \in InterestingStops :
          /\ call' = [op |-> "get_upcoming", resp |-> resp,
                      interesting_stops |-> interesting_stops,
                      live |-> get_live(resp, interesting_stops),
                      out |-> get_upcoming(resp, interesting_stops)]
          /\ _trip_db' = TripsAfterLive(resp, interesting_stops)
    /\ UNCHANGED <<gtfs, keep_stops, _stops_db, _route_db, _calendar_db,
                   _exceptions_db, clock, loading, http>>

NextQueries ==
    \/ GetTrip
    \/ GetRoute
    \/ IsValidServiceDay
    \/ GetScheduledFor
    \/ GetScheduled
    \/ QueryLive
    \/ QueryUpcoming
    \/ TakeResult

SpecQueries == InitQueries /\ [][NextQueries]_vars

---------------------------------------------------------------------------
(* SpecParse: parse_time on the texts HH:MM:SS with HH up to MaxHour, on   *)
(* texts that are no time, and at several instants of the clock.           *)

\* The texts: hours from -1 to MaxHour, minutes and seconds at the ends of
\* their ranges and past them, and a text without fields.
TimeTexts ==
    {<<h, m, s>> : h \in -1..MaxHour, m \in {0, 30, 59, 60}, s \in {0, 59}}
    \cup {<< >>}

InitParse ==
    /\ gtfs = Bundle(<< >>, << >>, << >>, << >>, << >>)
    /\ keep_stops = << >>
    /\ Loaded
    /\ NotServing
    /\ clock \in {combine(0, 0, 0, 0), combine(1, 7, 0, 0),
                  combine(1, 23, 59, 59)}
    /\ NotLoading
    /\ call = [op |-> "none"]

ParseTime ==
    /\ call.op = "none"
    /\ \E time_str \in TimeTexts :
          call' = [op |-> "parse_time", time_str |-> time_str,
                   out |-> parse_time(time_str)]
    /\ UNCHANGED <<db_vars, loading>>

NextParse == ParseTime \/ TakeResult

SpecParse == InitParse /\ [][NextParse]_vars

---------------------------------------------------------------------------
(* SpecFetch: make_fetcher on the providers and environments of the        *)
(* command line, known and unknown, in either case of letters.             *)

Providers == {"nta", "vicroads", "NTA", "ptv", ""}
Environments ==
    {"test", "prod", "metrobus", "metrotrain", "tram", "PROD", "staging", ""}
ApiKeys == {"", "k1", "k2"}

InitFetch ==
    /\ gtfs = Bundle(<< >>, << >>, << >>, << >>, << >>)
    /\ keep_stops = << >>
    /\ Loaded
    /\ NotServing
    /\ clock = 0
    /\ NotLoading
    /\ call = [op |-> "none"]

MakeFetcher ==
    /\ call.op = "none"
    /\ \E provider \in Providers, env \in Environments, api_key \in ApiKeys :
          call' = [op |-> "make_fetcher", provider |-> provider, env |-> env,
                   api_key |-> api_key,
                   out |-> make_fetcher(provider, env, api_key)]
    /\ UNCHANGED <<db_vars, loading>>

NextFetch == MakeFetcher \/ TakeResult

SpecFetch == InitFetch /\ [][NextFetch]_vars

---------------------------------------------------------------------------
(* SpecUpdates: get_live at 07:00 on feeds of one entity, SCHEDULED or     *)
(* CANCELED for trip T1 (P at stop_sequence 1, 07:20, then Q at 2, 07:40)  *)
(* or ADDED for the trip TX that no file holds, whose stop_time_update is   *)
(* any list of at most MaxUpdates elements.                                *)

\* A StopTimeEvent with a delay and a time.
DelayAndTime(delay, time) ==
    [has_delay |-> TRUE, delay |-> delay, has_time |-> TRUE, time |-> time]

\* The stop of each stop_sequence of the elements.
UpdateStops == <<"P", "Q", "Z">>

\* The elements: at stop_sequence 1, 2 or 3, without arrival, two minutes
\* late, arriving at 07:50, and five minutes late with an arrival at 07:55.
UpdateElements ==
    {StopTimeUpdate(sequence, UpdateStops[sequence], arrival, None) :
        sequence \in 1..3,
        arrival \in {None, Delay(120), Time(Posix(combine(1, 7, 50, 0))),
                     DelayAndTime(300, Posix(combine(1, 7, 55, 0)))}}

InitUpdates ==
    /\ gtfs = Bundle(<<StopTimeRow("T1", "P", 1, <<7, 20, 0>>),
                       StopTimeRow("T1", "Q", 2, <<7, 40, 0>>)>>,
                     <<TripRow("T1", "R1", "S1", "H1", "0")>>,
                     <<RouteRow("R1", "7", "3")>>,
                     <<CalendarRow("S1", [i \in 1..7 |-> "1"], 0, 6)>>,
                     << >>)
    /\ keep_stops = << >>
    /\ Loaded
    /\ NotServing
    /\ clock = combine(1, 7, 0, 0)
    /\ NotLoading
    /\ call = [op |-> "none"]

\* get_live on a feed of one entity.
UpdateLive ==
    /\ call.op = "none"
    /\ \E schedule_relationship \in {"SCHEDULED", "CANCELED", "ADDED"},
          stop_time_update \in SeqsUpTo(UpdateElements, MaxUpdates),
          interesting_stops \in InterestingStops :
          LET trip_id == IF schedule_relationship = "ADDED" THEN "TX"
                         ELSE "T1"
              resp == [entity |-> <<TripUpdate(trip_id, "R1",
                                               schedule_relationship,
                                               stop_time_update)>>]
          IN  call' = [op |-> "get_live", resp |-> resp,
                       interesting_stops |-> interesting_stops,
                       out |-> get_live(resp, interesting_stops)]
    /\ UNCHANGED <<db_vars, loading>>

NextUpdates == UpdateLive \/ TakeResult

SpecUpdates == InitUpdates /\ [][NextUpdates]_vars

---------------------------------------------------------------------------
(* SpecMidnight: get_scheduled half an hour after midnight, at 07:00 and   *)
(* half an hour before midnight of day 1, on databases whose StopTimes     *)
(* arrive around midnight, with hours below and above 24.  The service S1  *)
(* runs every day.                                                         *)

MidnightStopTimeRows ==
    {StopTimeRow("T1", "P", 1, a) :
        a \in {<<0, 10, 0>>, <<0, 40, 0>>, <<7, 20, 0>>, <<23, 40, 0>>,
               <<24, 10, 0>>, <<24, 40, 0>>}}
    \cup {StopTimeRow("T2", "Q", 1, a) : a \in {<<0, 40, 0>>, <<24, 40, 0>>}}

InitMidnight ==
    /\ \E stop_times \in SeqsUpTo(MidnightStopTimeRows, MaxStopTimes) :
          gtfs = Bundle(stop_times,
                        <<TripRow("T1", "R1", "S1", "H1", "0"),
                          TripRow("T2", "R1", "S1", "H2", "1")>>,
                        <<RouteRow("R1", "7", "3")>>,
                        <<CalendarRow("S1", [i \in 1..7 |-> "1"], 0, 6)>>,
                        << >>)
    /\ keep_stops = << >>
    /\ Loaded
    /\ NotServing
    /\ clock \in {combine(1, 0, 30, 0), combine(1, 7, 0, 0),
                  combine(1, 23, 30, 0)}
    /\ NotLoading
    /\ call = [op |-> "none"]

NextMidnight == GetScheduled \/ TakeResult

SpecMidnight == InitMidnight /\ [][NextMidnight]_vars

---------------------------------------------------------------------------
(* SpecLoad: one call of loader.Load, the reader and the MaxThreads workers *)
(* of its pool running together, on a file of the columns k and v, with or  *)
(* without BROKEN_CHARACTER in front, or on an empty file.  keep names      *)
(* columns of the header only.                                              *)

\* A line of text: its fields, commas between them, and a newline.
TextLine(fields) ==
    [i \in 1..(2 * Len(fields)) |->
        IF i % 2 = 1 THEN fields[(i + 1) \div 2]
        ELSE IF i = 2 * Len(fields) THEN "\n" ELSE ","]

\* The lines one after the other.
RECURSIVE Concat(_)
Concat(lines) ==
    IF lines = << >> THEN << >> ELSE Head(lines) \o Concat(Tail(lines))

\* The data lines of the files.
LoadLines ==
    {TextLine(<<"1", "x">>), TextLine(<<"2", "x">>), TextLine(<<"1", "y">>)}

\* The data lines of the long files: 1,x and 2,x in turn.
LongLines ==
    [i \in 1..MaxLongRows |->
        IF i % 2 = 1 THEN TextLine(<<"1", "x">>) ELSE TextLine(<<"2", "x">>)]

\* The texts of the files.
LoadTexts ==
    LET plain == {TextLine(<<"k", "v">>) \o Concat(lines) :
                     lines \in SeqsUpTo(LoadLines, MaxFileRows)}
                 \cup {TextLine(<<"k", "v">>) \o Concat(SubSeq(LongLines, 1, n)) :
                          n \in 1..MaxLongRows}
                 \cup {<< >>}
    IN  plain \cup {<<BROKEN_CHARACTER>> \o text : text \in plain}

\* The keep arguments: none, one column, two columns.
LoadKeeps ==
    {EmptyDict,
     [name \in {<<"k">>} |-> {<<"1">>}],
     [name \in {<<"k">>, <<"v">>} |->
         IF name = <<"k">> THEN {<<"1">>} ELSE {<<"x">>}]}

InitLoad ==
    /\ gtfs = Bundle(<< >>, << >>, << >>, << >>, << >>)
    /\ keep_stops = << >>
    /\ Loaded
    /\ NotServing
    /\ clock = 0
    /\ call = [op |-> "none"]
    /\ \E text \in LoadTexts, keep \in LoadKeeps :
          loading = Calling(text, keep)

NextLoad ==
    \/ ReadFirst
    \/ ReadHeader
    \/ NextLine
    \/ Acquire
    \/ PoolSubmit
    \/ AddDoneCallback
    \/ Collect
    \/ \E w \in Workers : Start(w)
    \/ \E w \in Workers : Finish(w)
    \/ \E w \in Workers : Release(w)

SpecLoad == InitLoad /\ [][NextLoad]_vars

---------------------------------------------------------------------------
(* SpecHttp: the HTTP server and up to MaxConnections clients.  The server *)
(* and the handlers run when they can; a client connects when it likes and *)
(* a fetch takes as long as the provider lets it.                          *)

Connections == 1..MaxConnections

InitHttp ==
    /\ gtfs = Bundle(<< >>, << >>, << >>, << >>, << >>)
    /\ keep_stops = << >>
    /\ Loaded
    /\ NotLoading
    /\ clock = 0
    /\ call = [op |-> "none"]
    /\ http = Serving

NextHttp ==
    \/ Connect
    \/ Accept
    \/ \E c \in Connections : DoGET(c)
    \/ \E c \in Connections : FetchReturns(c)
    \/ \E c \in Connections : Send(c)

SpecHttp ==
    /\ InitHttp
    /\ [][NextHttp]_vars
    /\ WF_vars(Accept)
    /\ \A c \in Connections : WF_vars(DoGET(c)) /\ WF_vars(Send(c))

---------------------------------------------------------------------------
(* SpecQuoted: Load on files with quoted fields.                           *)

\* The data lines of the files: a plain line, a quoted field with a line
\* break in it, a quoted key, a quoted field with a comma in it.
QuotedLines ==
    {TextLine(<<"1", "x">>),
     <<"1", ",", "\"", "a", "\n", "b", "\"", "\n">>,
     <<"\"", "1", "\"", ",", "x", "\n">>,
     <<"2", ",", "\"", "x", ",", "y", "\"", "\n">>}

\* The texts of the files.
QuotedTexts ==
    LET plain == {TextLine(<<"k", "v">>) \o Concat(lines) :
                     lines \in SeqsUpTo(QuotedLines, MaxFileRows)}
    IN  plain \cup {<<BROKEN_CHARACTER>> \o text : text \in plain}

InitQuoted ==
    /\ gtfs = Bundle(<< >>, << >>, << >>, << >>, << >>)
    /\ keep_stops = << >>
    /\ Loaded
    /\ NotServing
    /\ clock = 0
    /\ call = [op |-> "none"]
    /\ \E text \in QuotedTexts, keep \in LoadKeeps :
          loading = Calling(text, keep)

SpecQuoted == InitQuoted /\ [][NextLoad]_vars

---------------------------------------------------------------------------
(* SpecFair: Load with workers that fail, under fair scheduling.           *)

\* The data lines of the files: 2, 1, 1, 2 and so on when first is 0 and
\* 1, 2, 2, 1 and so on when first is 1.
FailLines(first) ==
    [i \in 1..MaxFailRows |->
        IF ((i + first) % 4) \in {2, 3} THEN TextLine(<<"1">>)
        ELSE TextLine(<<"2">>)]

\* The texts of the files: a header without the column v, over which
\* load_chunk raises KeyError on the rows whose k is accepted by a keep of k
\* and v; and the empty file.
FailTexts ==
    {TextLine(<<"k">>) \o Concat(SubSeq(FailLines(first), 1, n)) :
        first \in {0, 1}, n \in 0..MaxFailRows}
    \cup {<< >>}

InitFair ==
    /\ gtfs = Bundle(<< >>, << >>, << >>, << >>, << >>)
    /\ keep_stops = << >>
    /\ Loaded
    /\ NotServing
    /\ clock = 0
    /\ call = [op |-> "none"]
    /\ \E text \in FailTexts, keep \in LoadKeeps :
          loading = Calling(text, keep)

\* The thread of Load runs when it can: it blocks in self._sem.acquire() and
\* in future.result() only.
ReaderStep ==
    \/ ReadFirst
    \/ ReadHeader
    \/ NextLine
    \/ Acquire
    \/ PoolSubmit
    \/ AddDoneCallback
    \/ Collect

\* A thread of the pool takes queued work when it is idle, finishes the
\* load_chunk it started and then runs the done callback; it can do one of
\* the three at a time.
WorkerStep(w) == Start(w) \/ Finish(w) \/ Release(w)

\* The thread of Load and every thread of the pool run when they can.
Fairness ==
    /\ WF_vars(ReaderStep)
    /\ \A w \in Workers : WF_vars(WorkerStep(w))

SpecFair == InitFair /\ [][NextLoad]_vars /\ Fairness

---------------------------------------------------------------------------
(* The calendar as the claims read it.                                     *)

\* The trip's service is in the calendar.
HasService(trip_id) == _trip_db[trip_id].service_id \in DOMAIN _calendar_db

ServiceOf(trip_id) == _calendar_db[_trip_db[trip_id].service_id]

\* The flag the trip's service gives the weekday of date d.
WeekdayFlag(trip_id, d) == ServiceOf(trip_id)[CALENDAR_DAYS[weekday(d) + 1]]

\* The exception recorded for (service_id, d), NoneStr when there is none.
ExceptionOn(service_id, d) ==
    IF service_id \in DOMAIN _exceptions_db
       /\ d \in DOMAIN _exceptions_db[service_id]
    THEN _exceptions_db[service_id][d]
    ELSE NoneStr

InsideWindow(trip_id, d) ==
    /\ ServiceOf(trip_id).start_date <= d
    /\ d <= ServiceOf(trip_id).end_date

AskedValidDay == call.op = "_is_valid_service_day"

\* C1: for every loaded trip t and date d, is_valid_service_day(d, t) is
\* false when d is before the start_date or after the end_date of t's
\* service, whatever the weekday flag and the exceptions of d say.
C1_FalseOutsideWindow ==
    (/\ AskedValidDay
     /\ HasService(call.trip_id)
     /\ ~InsideWindow(call.trip_id, call.dt))
    => call.ret = FALSE

\* C1's case: a date outside the window that is a day of service by its
\* weekday and has a SERVICE_ADDED exception, answered false.
C1_Witness ==
    /\ AskedValidDay
    /\ HasService(call.trip_id)
    /\ ~InsideWindow(call.trip_id, call.dt)
    /\ WeekdayFlag(call.trip_id, call.dt) = "1"
    /\ ExceptionOn(_trip_db[call.trip_id].service_id, call.dt)
         = CALENDAR_EXCEPTION_SERVICE_ADDED
    /\ call.ret = FALSE

\* C2 as stated: for every loaded trip t and every date d, if t's service
\* marks the weekday of d "0", is_valid_service_day(d, t) is true exactly
\* when the exception recorded for (t.service_id, d) is SERVICE_ADDED.
C2_Original ==
    (/\ AskedValidDay
     /\ HasService(call.trip_id)
     /\ WeekdayFlag(call.trip_id, call.dt) = "0")
    => (call.ret = TRUE
        <=> ExceptionOn(_trip_db[call.trip_id].service_id, call.dt)
              = CALENDAR_EXCEPTION_SERVICE_ADDED)

\* C2 amended: for every loaded trip t and every date d inside
\* [start_date, end_date] of t's service, if the service marks the weekday
\* of d "0", is_valid_service_day(d, t) is true exactly when the exception
\* recorded for (t.service_id, d) is SERVICE_ADDED.
C2_UnavailableDayInWindow ==
    (/\ AskedValidDay
     /\ HasService(call.trip_id)
     /\ InsideWindow(call.trip_id, call.dt)
     /\ WeekdayFlag(call.trip_id, call.dt) = "0")
    => (call.ret = TRUE
        <=> ExceptionOn(_trip_db[call.trip_id].service_id, call.dt)
              = CALENDAR_EXCEPTION_SERVICE_ADDED)

\* C2's case: a date in the window, on a weekday marked "0", made a day of
\* service by a SERVICE_ADDED exception.
C2_Witness ==
    /\ AskedValidDay
    /\ HasService(call.trip_id)
    /\ InsideWindow(call.trip_id, call.dt)
    /\ WeekdayFlag(call.trip_id, call.dt) = "0"
    /\ ExceptionOn(_trip_db[call.trip_id].service_id, call.dt)
         = CALENDAR_EXCEPTION_SERVICE_ADDED
    /\ call.ret = TRUE

\* C3 as stated: for every loaded trip t and every date d, if t's service
\* marks the weekday of d "1", is_valid_service_day(d, t) is true exactly
\* when the exception recorded for (t.service_id, d) is not SERVICE_REMOVED.
C3_Original ==
    (/\ AskedValidDay
     /\ HasService(call.trip_id)
     /\ WeekdayFlag(call.trip_id, call.dt) = "1")
    => (call.ret = TRUE
        <=> ExceptionOn(_trip_db[call.trip_id].service_id, call.dt)
              # CALENDAR_EXCEPTION_SERVICE_REMOVED)

\* C3 amended: for every loaded trip t and every date d inside
\* [start_date, end_date] of t's service, if the service marks the weekday
\* of d "1", is_valid_service_day(d, t) is true exactly when the exception
\* recorded for (t.service_id, d) is not SERVICE_REMOVED (no exception
\* counts as not removed).
C3_AvailableDayInWindow ==
    (/\ AskedValidDay
     /\ HasService(call.trip_id)
     /\ InsideWindow(call.trip_id, call.dt)
     /\ WeekdayFlag(call.trip_id, call.dt) = "1")
    => (call.ret = TRUE
        <=> ExceptionOn(_trip_db[call.trip_id].service_id, call.dt)
              # CALENDAR_EXCEPTION_SERVICE_REMOVED)

\* C3's case: a date in the window, on a weekday marked "1", taken out of
\* service by a SERVICE_REMOVED exception.
C3_Witness ==
    /\ AskedValidDay
    /\ HasService(call.trip_id)
    /\ InsideWindow(call.trip_id, call.dt)
    /\ WeekdayFlag(call.trip_id, call.dt) = "1"
    /\ ExceptionOn(_trip_db[call.trip_id].service_id, call.dt)
         = CALENDAR_EXCEPTION_SERVICE_REMOVED
    /\ call.ret = FALSE

---------------------------------------------------------------------------
(* get_scheduled_for as the claims read it.                                *)

AskedScheduledFor == call.op = "get_scheduled_for"

ReturnedScheduledFor == AskedScheduledFor /\ call.out.kind = "return"

KnownStop(stop_id) == stop_id \in DOMAIN _stops_db

\* The StopTime's arrival_time is three integers that make a time of day,
\* with 24 taken from an hour >= 24.
HasArrival(s) ==
    /\ Len(s.arrival_time) = 3
    /\ (IF s.arrival_time[1] >= 24 THEN s.arrival_time[1] - 24
                                   ELSE s.arrival_time[1]) \in 0..23
    /\ s.arrival_time[2] \in 0..59
    /\ s.arrival_time[3] \in 0..59

\* The arrival of StopTime s on service date d: d at s.arrival_time, plus
\* one day and hour minus 24 when the hour is >= 24.
ArrivalOn(d, s) ==
    IF s.arrival_time[1] >= 24
    THEN (d + 1) * SecondsPerDay + (s.arrival_time[1] - 24) * 3600
         + s.arrival_time[2] * 60 + s.arrival_time[3]
    ELSE d * SecondsPerDay + s.arrival_time[1] * 3600
         + s.arrival_time[2] * 60 + s.arrival_time[3]

\* The (StopTime at the stop, service_date) pairs of the trip that are on a
\* valid service day and arrive inside [start, end].
Qualifying(trip_id, stop_id, start, end) ==
    {p \in (DOMAIN _stops_db[stop_id]) \X ((DateOf(start) - 1)..DateOf(end)) :
        LET s == _stops_db[stop_id][p[1]]
        IN  /\ s.trip_id = trip_id
            /\ HasArrival(s)
            /\ _is_valid_service_day(p[2], _trip_db[trip_id])
            /\ start <= ArrivalOn(p[2], s)
            /\ ArrivalOn(p[2], s) <= end}

\* The number of times x occurs in seq.
Count(seq, x) == Cardinality({i \in DOMAIN seq : seq[i] = x})

\* C4: for a known stop and start <= end, a trip is in the result of
\* get_scheduled_for(stop, start, end) exactly when the stop has a StopTime
\* s of the trip and there is a service date d, start.date - 1 <= d <=
\* end.date, with is_valid_service_day(d, trip) and start <= arrival <= end,
\* both ends included; the result holds nothing but trips of the database.
\* (A StopTime whose hour minus 24 is no time of day has no arrival.)
C4_ScheduledExactlyQualifying ==
    (/\ ReturnedScheduledFor
     /\ KnownStop(call.stop_id)
     /\ call.start <= call.end)
    => /\ \A trip_id \in DOMAIN _trip_db :
             (\E i \in DOMAIN call.out.value :
                 call.out.value[i] = _trip_db[trip_id])
             <=> Qualifying(trip_id, call.stop_id, call.start, call.end) # {}
       /\ \A i \in DOMAIN call.out.value :
             \E trip_id \in DOMAIN _trip_db :
                 call.out.value[i] = _trip_db[trip_id]

\* C4's case: a window with start < end that returns a trip arriving
\* exactly at start and a trip arriving exactly at end.
C4_Witness ==
    /\ ReturnedScheduledFor
    /\ KnownStop(call.stop_id)
    /\ call.start < call.end
    /\ \E trip_id \in DOMAIN _trip_db :
          /\ \E i \in DOMAIN call.out.value :
                call.out.value[i] = _trip_db[trip_id]
          /\ \E p \in Qualifying(trip_id, call.stop_id, call.start, call.end) :
                ArrivalOn(p[2], _stops_db[call.stop_id][p[1]]) = call.start
    /\ \E trip_id \in DOMAIN _trip_db :
          /\ \E i \in DOMAIN call.out.value :
                call.out.value[i] = _trip_db[trip_id]
          /\ \E p \in Qualifying(trip_id, call.stop_id, call.start, call.end) :
                ArrivalOn(p[2], _stops_db[call.stop_id][p[1]]) = call.end

\* C5: whenever end < start, get_scheduled_for(stop_id, start, end) raises
\* ValueError and returns no list, whether or not stop_id is in the
\* StopIndex.
C5_InvertedWindowRaises ==
    (AskedScheduledFor /\ call.end < call.start)
    => (call.out.kind = "raise" /\ call.out.error = "ValueError")

\* C6: for start <= end, get_scheduled_for with a stop_id that is not in the
\* StopIndex returns the empty list and raises nothing.
C6_UnknownStopReturnsEmpty ==
    (/\ AskedScheduledFor
     /\ call.start <= call.end
     /\ ~KnownStop(call.stop_id))
    => call.out = Return(<< >>)

\* C6's case: a query of stop Q, which no StopTime calls at, over a window
\* that is in order, in a database that knows other stops.
C6_Witness ==
    /\ AskedScheduledFor
    /\ call.start <= call.end
    /\ ~KnownStop(call.stop_id)
    /\ DOMAIN _stops_db # {}
    /\ call.out.kind = "return"
    /\ call.out.value = << >>

\* The trip has one StopTime at the stop.
CallsOnce(trip_id, stop_id) ==
    Cardinality({i \in DOMAIN _stops_db[stop_id] :
                    _stops_db[stop_id][i].trip_id = trip_id}) = 1

\* The StopTime is an overnight one: its hour is >= 24.
Overnight(s) == HasArrival(s) /\ s.arrival_time[1] >= 24

\* C7: for a trip whose StopTime at the queried stop (the trip calls there
\* once) has an hour >= 24 and whose service is valid on day D: a window
\* shorter than 24 hours that starts on D, ends on D + 1 and contains the
\* arrival (D + 1 at hour - 24) returns the trip exactly once; and a window
\* that starts at D + 1 00:00 and contains the arrival returns the trip,
\* though the arrival is of service date D.
C7_OvernightReturnedOnce ==
    (ReturnedScheduledFor /\ KnownStop(call.stop_id))
    => \A trip_id \in DOMAIN _trip_db :
       \A i \in DOMAIN _stops_db[call.stop_id] :
          LET s == _stops_db[call.stop_id][i]
              trip == _trip_db[trip_id]
              D == DateOf(call.start)
          IN  (s.trip_id = trip_id /\ Overnight(s))
              => /\ (/\ CallsOnce(trip_id, call.stop_id)
                     /\ _is_valid_service_day(D, trip)
                     /\ DateOf(call.end) = D + 1
                     /\ call.end - call.start < SecondsPerDay
                     /\ call.start <= ArrivalOn(D, s)
                     /\ ArrivalOn(D, s) <= call.end)
                    => Count(call.out.value, trip) = 1
                 /\ (/\ _is_valid_service_day(D - 1, trip)
                     /\ call.start = D * SecondsPerDay
                     /\ call.start <= ArrivalOn(D - 1, s)
                     /\ ArrivalOn(D - 1, s) <= call.end)
                    => Count(call.out.value, trip) >= 1

\* C7's first case: the window runs from 23:00 of D to the next morning, the
\* trip's service is valid on D - 1, D and D + 1, and the trip is returned
\* once.
C7_Witness ==
    /\ ReturnedScheduledFor
    /\ KnownStop(call.stop_id)
    /\ \E trip_id \in DOMAIN _trip_db :
       \E i \in DOMAIN _stops_db[call.stop_id] :
          LET s == _stops_db[call.stop_id][i]
              trip == _trip_db[trip_id]
              D == DateOf(call.start)
          IN  /\ s.trip_id = trip_id
              /\ Overnight(s)
              /\ CallsOnce(trip_id, call.stop_id)
              /\ \A d \in {D - 1, D, D + 1} : _is_valid_service_day(d, trip)
              /\ call.start = combine(D, 23, 0, 0)
              /\ DateOf(call.end) = D + 1
              /\ call.start <= ArrivalOn(D, s)
              /\ ArrivalOn(D, s) <= call.end
              /\ Count(call.out.value, trip) = 1

\* C7's second case: the window starts at 00:00 of the day after the
\* service date of the arrival it returns.
C7_WitnessFromMidnight ==
    /\ ReturnedScheduledFor
    /\ KnownStop(call.stop_id)
    /\ \E trip_id \in DOMAIN _trip_db :
       \E i \in DOMAIN _stops_db[call.stop_id] :
          LET s == _stops_db[call.stop_id][i]
              trip == _trip_db[trip_id]
              D == DateOf(call.start)
          IN  /\ s.trip_id = trip_id
              /\ Overnight(s)
              /\ _is_valid_service_day(D - 1, trip)
              /\ call.start = D * SecondsPerDay
              /\ call.start <= ArrivalOn(D - 1, s)
              /\ ArrivalOn(D - 1, s) <= call.end
              /\ Count(call.out.value, trip) >= 1

\* C8: get_scheduled_for does not deduplicate: a trip occurs in the result
\* as many times as it has (StopTime at the stop, service_date) pairs on a
\* valid service day that arrive inside [start, end].
C8_OneEntryPerQualifyingPair ==
    (ReturnedScheduledFor /\ KnownStop(call.stop_id))
    => \A trip_id \in DOMAIN _trip_db :
          Count(call.out.value, _trip_db[trip_id])
          = Cardinality(Qualifying(trip_id, call.stop_id, call.start,
                                   call.end))

\* C8's case: one StopTime of a trip qualifies on two service dates of the
\* window, and the trip is returned twice.
C8_Witness ==
    /\ ReturnedScheduledFor
    /\ KnownStop(call.stop_id)
    /\ \E trip_id \in DOMAIN _trip_db :
          /\ CallsOnce(trip_id, call.stop_id)
          /\ Cardinality(Qualifying(trip_id, call.stop_id, call.start,
                                    call.end)) = 2
          /\ Count(call.out.value, _trip_db[trip_id]) = 2

---------------------------------------------------------------------------
(* The feed and the listings as the claims read them.                      *)

AskedLive == call.op = "get_live"
AskedUpcoming == call.op = "get_upcoming"

\* The entity is a trip_update with this schedule_relationship.
IsTripUpdate(entity, schedule_relationship) ==
    /\ entity.trip_update # None
    /\ entity.trip_update.trip.schedule_relationship = schedule_relationship

TripIdOf(entity) == entity.trip_update.trip.trip_id

\* The places in the feed of the call of the entities that report trip_id
\* with one of these schedule_relationships.
Reporting(trip_id, relationships) ==
    {i \in DOMAIN call.resp.entity :
        /\ \E sr \in relationships : IsTripUpdate(call.resp.entity[i], sr)
        /\ TripIdOf(call.resp.entity[i]) = trip_id}

\* The places in a listing of the entries of trip_id.
EntriesOf(listing, trip_id) ==
    {k \in DOMAIN listing : listing[k].trip_id = trip_id}

\* The trips of the database the feed of the call reports CANCELED.
CanceledTrips ==
    {trip_id \in DOMAIN _trip_db : Reporting(trip_id, {"CANCELED"}) # {}}

AddedTrips ==
    {TripIdOf(call.resp.entity[i]) :
        i \in {j \in DOMAIN call.resp.entity :
                  IsTripUpdate(call.resp.entity[j], "ADDED")}}
    \ DOMAIN _trip_db

\* The entity's route_id is in the route index and one of its
\* stop_time_updates is at an interesting stop of the call and carries an
\* arrival.time or a departure.time.
Carried(entity) ==
    /\ entity.trip_update.trip.route_id \in DOMAIN _route_db
    /\ \E n \in DOMAIN entity.trip_update.stop_time_update :
          LET stu == entity.trip_update.stop_time_update[n]
          IN  /\ InList(stu.stop_id, call.interesting_stops)
              /\ HasTime(stu.arrival) \/ HasTime(stu.departure)

\* C10: for every ADDED entity of the feed whose trip_id is not in the
\* database, get_live returns an entry for it when its route_id is in the
\* route index and one of its stop_time_updates is at an interesting stop with
\* an arrival.time or departure.time, and no entry otherwise: the entries
\* of such a trip_id are as many as its ADDED entities that qualify, and each
\* has added_to_schedule = true, source LIVE, and the headsign and direction
\* inferred for the route of such an entity.
C10_AddedTripListed ==
    AskedLive =>
        /\ call.out.kind = "return"
        /\ \A trip_id \in AddedTrips :
              LET carried == {i \in Reporting(trip_id, {"ADDED"}) :
                                 Carried(call.resp.entity[i])}
                  entries == EntriesOf(call.out.value, trip_id)
              IN  /\ Cardinality(entries) = Cardinality(carried)
                  /\ \A k \in entries :
                        LET upcoming == call.out.value[k]
                        IN  /\ upcoming.added_to_schedule
                            /\ upcoming.source = "LIVE"
                            /\ \E i \in carried :
                                  LET route ==
                                          _route_db[call.resp.entity[i]
                                              .trip_update.trip.route_id]
                                  IN  /\ upcoming.headsign
                                            = route.inferred_headsign
                                      /\ upcoming.direction
                                            = route.inferred_direction_id

\* An ADDED entity of TX, on the known route R2, whose one stop_time_update
\* is at the interesting stop P, next to one on R1 that carries a
\* departure.time only at the interesting stop Q: both are listed, with the
\* headsigns inferred for R2 and R1.
C10_Witness ==
    /\ AskedLive
    /\ call.out.kind = "return"
    /\ call.interesting_stops = <<"P", "Q">>
    /\ Len(call.resp.entity) = 2
    /\ call.resp.entity[1].trip_update # None
    /\ call.resp.entity[2].trip_update # None
    /\ call.resp.entity[1].trip_update.trip
          = [trip_id |-> "TX", route_id |-> "R2",
             schedule_relationship |-> "ADDED"]
    /\ call.resp.entity[2].trip_update.trip
          = [trip_id |-> "TX", route_id |-> "R1",
             schedule_relationship |-> "ADDED"]
    /\ \A n \in DOMAIN call.resp.entity[2].trip_update.stop_time_update :
          ~HasTime(call.resp.entity[2].trip_update.stop_time_update[n].arrival)
    /\ Len(call.out.value) = 2
    /\ call.out.value[1].added_to_schedule
    /\ call.out.value[1].headsign = "H3"
    /\ call.out.value[2].added_to_schedule
    /\ call.out.value[2].headsign = "H1"
    /\ call.out.value[2].stop_id = "Q"

\* C11: get_upcoming prefers live data: its result has no entry of source
\* SCHEDULE for a trip_id that occurs in the list get_live returns, and it has
\* every not canceled entry of get_live, as many times as get_live has it.
C11_LivePreferred ==
    AskedUpcoming =>
        /\ call.out.kind = "return"
        /\ call.live.kind = "return"
        /\ \A k \in DOMAIN call.out.value :
              call.out.value[k].source = "SCHEDULE"
                  => EntriesOf(call.live.value, call.out.value[k].trip_id) = {}
        /\ \A j \in DOMAIN call.live.value :
              ~call.live.value[j].canceled
                  => Count(call.out.value, call.live.value[j])
                         = Count(call.live.value, call.live.value[j])

\* A trip the schedule lists and the feed reports, not canceled, next to a
\* trip the feed is silent on: get_upcoming has the LIVE entry of the first,
\* no SCHEDULE entry of it, and the SCHEDULE entry of the second.
C11_Witness ==
    /\ AskedUpcoming
    /\ call.out.kind = "return"
    /\ \E j \in DOMAIN call.live.value :
          LET live == call.live.value[j]
          IN  /\ ~live.canceled
              /\ EntriesOf(get_scheduled(call.interesting_stops).value,
                           live.trip_id) # {}
              /\ Count(call.out.value, live) = 1
              /\ \A k \in EntriesOf(call.out.value, live.trip_id) :
                    call.out.value[k].source = "LIVE"
    /\ \E k \in DOMAIN call.out.value : call.out.value[k].source = "SCHEDULE"

\* C12 as stated: get_upcoming shows scheduled data for the trips the feed
\* has not reported on: every entry get_scheduled returns whose trip_id does
\* not occur in the list get_live returns is in the result of get_upcoming,
\* also when the trip is scheduled at two interesting stops.
C12_ScheduledShown ==
    AskedUpcoming =>
        /\ call.out.kind = "return"
        /\ \A scheduled \in
                  {get_scheduled(call.interesting_stops).value[n] :
                      n \in DOMAIN get_scheduled(call.interesting_stops).value} :
              EntriesOf(call.live.value, scheduled.trip_id) = {}
                  => Count(call.out.value, scheduled) >= 1

\* C13: the lists get_scheduled and get_upcoming return are in non-decreasing
\* order of due_in_seconds.
C13_SortedByDue ==
    call.op \in {"get_scheduled", "get_upcoming"} =>
        /\ call.out.kind = "return"
        /\ \A i, j \in DOMAIN call.out.value :
              i < j => call.out.value[i].due_in_seconds
                           <= call.out.value[j].due_in_seconds

\* get_upcoming lists a SCHEDULE entry, appended after the live entries,
\* before a LIVE entry that is due later.
C13_Witness ==
    /\ AskedUpcoming
    /\ call.out.kind = "return"
    /\ \E i, j \in DOMAIN call.out.value :
          /\ i < j
          /\ call.out.value[i].source = "SCHEDULE"
          /\ call.out.value[j].source = "LIVE"
          /\ call.out.value[i].due_in_seconds
                 < call.out.value[j].due_in_seconds

\* get_scheduled for the stops P then Q lists an entry at Q, appended after
\* the entries at P, before an entry at P that is due later.
C13_WitnessScheduled ==
    /\ call.op = "get_scheduled"
    /\ call.out.kind = "return"
    /\ call.interesting_stops = <<"P", "Q">>
    /\ \E i, j \in DOMAIN call.out.value :
          /\ i < j
          /\ call.out.value[i].stop_id = "Q"
          /\ call.out.value[j].stop_id = "P"
          /\ call.out.value[i].due_in_seconds
                 < call.out.value[j].due_in_seconds

\* The StopTimes of the trip at the interesting stops of the call, as places
\* in its stop_times.
InterestingCalls(trip_id) ==
    {n \in DOMAIN _trip_db[trip_id].stop_times :
        InList(_trip_db[trip_id].stop_times[n].stop_id, call.interesting_stops)}

\* The StopTime get_live reads for the trip: its first at an interesting stop.
FirstCall(trip_id) ==
    _trip_db[trip_id].stop_times[Min(InterestingCalls(trip_id))]

\* The arrival the schedule gives for that StopTime, today.
ScheduledArrival(trip_id) == parse_time(FirstCall(trip_id).arrival_time).value

\* The arrival after the stop_time_updates of the entity at place i of the
\* feed of the call.
UpdatedArrivalOf(i) ==
    LET trip_id == TripIdOf(call.resp.entity[i])
    IN  UpdatedArrival(ScheduledArrival(trip_id),
                       call.resp.entity[i].trip_update.stop_time_update, 1,
                       FirstCall(trip_id).stop_sequence)

\* C14: for a SCHEDULED entity of a trip of the database that calls at an
\* interesting stop, get_live emits no entry when now() is later than the
\* updated arrival at that stop and emits the entry, due at the updated
\* arrival, when now() <= the updated arrival: the entries of a trip that are
\* neither canceled nor added are those of its SCHEDULED entities that have
\* not passed, whatever the arrival of the schedule.
C14_PassedByUpdatedArrival ==
    AskedLive =>
        /\ call.out.kind = "return"
        /\ \A trip_id \in {t \in DOMAIN _trip_db : InterestingCalls(t) # {}} :
              LET ahead == {i \in Reporting(trip_id, {"SCHEDULED"}) :
                               now <= UpdatedArrivalOf(i)}
                  entries == {k \in EntriesOf(call.out.value, trip_id) :
                                 /\ ~call.out.value[k].canceled
                                 /\ ~call.out.value[k].added_to_schedule}
              IN  /\ Cardinality(entries) = Cardinality(ahead)
                  /\ \A k \in entries : \E i \in ahead :
                        call.out.value[k].due_in_seconds
                            = UpdatedArrivalOf(i) - now

\* A SCHEDULED entity whose trip was due before now by the schedule and is
\* due after now by its update: get_live emits its entry.
C14_Witness ==
    /\ AskedLive
    /\ call.out.kind = "return"
    /\ Len(call.resp.entity) = 1
    /\ IsTripUpdate(call.resp.entity[1], "SCHEDULED")
    /\ TripIdOf(call.resp.entity[1]) \in DOMAIN _trip_db
    /\ InterestingCalls(TripIdOf(call.resp.entity[1])) # {}
    /\ ScheduledArrival(TripIdOf(call.resp.entity[1])) < now
    /\ UpdatedArrivalOf(1) > now
    /\ Len(call.out.value) = 1

\* A SCHEDULED entity whose trip is due after now by the schedule and was due
\* before now by its update: get_live emits nothing.
C14_WitnessPassed ==
    /\ AskedLive
    /\ call.out.kind = "return"
    /\ Len(call.resp.entity) = 1
    /\ IsTripUpdate(call.resp.entity[1], "SCHEDULED")
    /\ TripIdOf(call.resp.entity[1]) \in DOMAIN _trip_db
    /\ InterestingCalls(TripIdOf(call.resp.entity[1])) # {}
    /\ ScheduledArrival(TripIdOf(call.resp.entity[1])) > now
    /\ UpdatedArrivalOf(1) < now
    /\ call.out.value = << >>

\* A SCHEDULED entity whose updated arrival is now: get_live emits its entry.
C14_WitnessDueNow ==
    /\ AskedLive
    /\ call.out.kind = "return"
    /\ Len(call.resp.entity) = 1
    /\ IsTripUpdate(call.resp.entity[1], "SCHEDULED")
    /\ TripIdOf(call.resp.entity[1]) \in DOMAIN _trip_db
    /\ InterestingCalls(TripIdOf(call.resp.entity[1])) # {}
    /\ UpdatedArrivalOf(1) = now
    /\ Len(call.out.value) = 1
    /\ call.out.value[1].due_in_seconds = 0

---------------------------------------------------------------------------
(* The file and the call of Load as the claims read them.                  *)

\* Load has returned ret.
LoadReturned == loading.pc = "done"

\* The text of the file without a BROKEN_CHARACTER in front.
WithoutBroken(text) ==
    IF text # << >> /\ text[1] = BROKEN_CHARACTER THEN Tail(text) ELSE text

\* The data rows of the file of the call, by the names of its header.
DataRows == DictReader(WithoutBroken(loading.text))

\* The row has an accepted value in every column of keep.
Accepted(row) ==
    \A name \in DOMAIN loading.keep : row[name] \in loading.keep[name]

Outstanding ==
    {i \in DOMAIN loading.futures :
        loading.futures[i].state \in {"pending", "running"}}

\* C16: during Load with MaxThreads workers the chunks submitted and not yet
\* completed are at most 2 * MaxThreads - 1; with that many outstanding the
\* reader that is in submit cannot acquire the semaphore, and a reader that
\* has acquired it has fewer outstanding.
C16_Backpressure ==
    loading.pc # "idle" =>
        /\ Cardinality(Outstanding) <= 2 * MaxThreads - 1
        /\ (loading.pc = "acquire"
               /\ Cardinality(Outstanding) = 2 * MaxThreads - 1)
              => loading.sem = 0
        /\ loading.pc = "pool_submit"
              => Cardinality(Outstanding) < 2 * MaxThreads - 1

\* The reader is blocked in submit with 2 * MaxThreads - 1 chunks outstanding.
C16_Witness ==
    /\ loading.pc = "acquire"
    /\ Cardinality(Outstanding) = 2 * MaxThreads - 1
    /\ loading.sem = 0

\* C17: Load of a file that begins with U+FEFF returns the rows, under the
\* column names, of the file without that character, and a first character
\* that is not U+FEFF is not consumed: the header Load reads is the first
\* line of the file without a U+FEFF in front, whole, and the rows it
\* returns are those of load_chunk on the file without it.
C17_BrokenCharacterRemoved ==
    /\ loading.pc \notin {"idle", "first", "header"} =>
          LET text == WithoutBroken(loading.text)
          IN  loading.header = SubSeq(text, 1, LineEnd(text, 1))
    /\ LoadReturned =>
          /\ loading.ret = load_chunk(WithoutBroken(loading.text),
                                      loading.keep)[1]
          /\ \A n \in DOMAIN loading.ret :
                \A name \in DOMAIN loading.ret[n] :
                    name = << >> \/ name[1] # BROKEN_CHARACTER

\* A file with U+FEFF in front: Load returns rows keyed by k and v.
C17_Witness ==
    /\ LoadReturned
    /\ loading.text # << >>
    /\ loading.text[1] = BROKEN_CHARACTER
    /\ loading.ret # << >>
    /\ \A n \in DOMAIN loading.ret : DOMAIN loading.ret[n] = {<<"k">>, <<"v">>}

\* A file without it: the header Load reads begins with the file's first
\* character.
C17_WitnessNotConsumed ==
    /\ LoadReturned
    /\ loading.text # << >>
    /\ loading.text[1] # BROKEN_CHARACTER
    /\ loading.header[1] = loading.text[1]
    /\ loading.ret # << >>

---------------------------------------------------------------------------
(* The tables of the database as the claims read them.                     *)

\* The five tables load() fills.
tables == <<_stops_db, _trip_db, _route_db, _calendar_db, _exceptions_db>>

\* The StopTime rows the StopIndex holds, under any stop_id.
StopIndexRows ==
    UNION {{_stops_db[s][i] : i \in DOMAIN _stops_db[s]} :
           s \in DOMAIN _stops_db}

\* The trips of the trip table whose stop_times have the row.
TripsHolding(row) ==
    {t \in DOMAIN _trip_db : InList(row, _trip_db[t].stop_times)}

\* trips.txt has a row of trip_id.
InTripsFile(trip_id) ==
    \E i \in DOMAIN gtfs["trips.txt"] : gtfs["trips.txt"][i].trip_id = trip_id

\* trips.txt has trip_id, and its last row of it names a route of routes.txt.
HasKnownRoute(trip_id) ==
    /\ InTripsFile(trip_id)
    /\ LET trips == gtfs["trips.txt"]
           last == Max({i \in DOMAIN trips : trips[i].trip_id = trip_id})
       IN  \E j \in DOMAIN gtfs["routes.txt"] :
               gtfs["routes.txt"][j].route_id = trips[last].route_id

\* C18 as stated: after load(), every StopTime row of the StopIndex is in
\* the stop_times of exactly one Trip of the trip table, also when trips.txt
\* has a trip of a route that routes.txt does not hold and when
\* stop_times.txt has a trip_id that trips.txt does not hold.
C18_Original ==
    \A row \in StopIndexRows : Cardinality(TripsHolding(row)) = 1

\* C18, amended: after load(), a StopTime row of the StopIndex whose trip_id
\* is in trips.txt with a route of routes.txt is in the stop_times of exactly
\* one Trip of the trip table, the Trip of its trip_id; a row whose trip
\* names a route routes.txt does not hold, or whose trip_id trips.txt does
\* not hold, is in the stop_times of no Trip.
C18_StopTimeOfKeptTrip ==
    \A row \in StopIndexRows :
        TripsHolding(row) =
            IF HasKnownRoute(row.trip_id) THEN {row.trip_id} ELSE {}

\* The StopIndex holds a row of a Trip of the table and a row of the trip
\* that load() dropped for its route.
C18_Witness ==
    /\ \E row \in StopIndexRows : TripsHolding(row) = {row.trip_id}
    /\ \E row \in StopIndexRows :
          /\ InTripsFile(row.trip_id)
          /\ ~HasKnownRoute(row.trip_id)
          /\ TripsHolding(row) = {}

\* The StopIndex, filtered to the stops to keep, holds a row of a Trip of the
\* table and a row of a trip_id that trips.txt does not hold.
C18_WitnessAbsentTrip ==
    /\ \E row \in StopIndexRows : TripsHolding(row) = {row.trip_id}
    /\ \E row \in StopIndexRows :
          /\ ~InTripsFile(row.trip_id)
          /\ TripsHolding(row) = {}

\* The trips the feed of the call reports ADDED that trips.txt does not hold.
NewTrips ==
    {TripIdOf(call.resp.entity[i]) :
        i \in {j \in DOMAIN call.resp.entity :
                  /\ IsTripUpdate(call.resp.entity[j], "ADDED")
                  /\ ~InTripsFile(TripIdOf(call.resp.entity[j]))}}

\* C19: after load() no call of get_trip, get_route, is_valid_service_day,
\* get_scheduled_for, get_scheduled, get_live or get_upcoming changes the
\* StopIndex, the trip table, the route table, the calendar or the exception
\* table; and after get_live or get_upcoming on a feed with an ADDED entity
\* of a trip that is not in the schedule, get_trip of that trip_id is null.
C19_Immutable ==
    /\ [][tables' = tables]_vars
    /\ []((AskedLive \/ AskedUpcoming) =>
             \A trip_id \in NewTrips : get_trip(trip_id) = None)

\* get_live has returned the entry of a Trip it built for the ADDED entity
\* of TX, and get_trip of TX is null.
C19_Witness ==
    /\ AskedLive
    /\ call.out.kind = "return"
    /\ "TX" \in NewTrips
    /\ \E k \in EntriesOf(call.out.value, "TX") :
          call.out.value[k].added_to_schedule
    /\ get_trip("TX") = None

\* The places in the trip's stop_times of its calls at the stops.
CallsAt(trip_id, interesting_stops) ==
    {i \in DOMAIN _trip_db[trip_id].stop_times :
        InList(_trip_db[trip_id].stop_times[i].stop_id, interesting_stops)}

\* The consequence alone: the entry get_live returns for a trip of the
\* database is at the stop of the trip's first call, by stop_sequence, at an
\* interesting stop.
C20_LiveAtSmallestSequence ==
    (AskedLive /\ call.out.kind = "return") =>
        \A k \in DOMAIN call.out.value :
            LET trip_id == call.out.value[k].trip_id
            IN  (trip_id \in DOMAIN _trip_db
                   /\ CallsAt(trip_id, call.interesting_stops) # {})
                => \E i \in CallsAt(trip_id, call.interesting_stops) :
                      LET stop_times == _trip_db[trip_id].stop_times
                      IN  /\ stop_times[i].stop_id = call.out.value[k].stop_id
                          /\ \A j \in CallsAt(trip_id,
                                               call.interesting_stops) :
                                stop_times[i].stop_sequence
                                    <= stop_times[j].stop_sequence

\* C20 as stated: after load(), the stop_times of every Trip are in ascending
\* stop_sequence order whatever the order of the rows of stop_times.txt, and
\* the entry get_live returns for a trip of the database is at the stop of
\* the trip's call at an interesting stop with the smallest stop_sequence.
C20_AscendingStopSequence ==
    /\ \A trip_id \in DOMAIN _trip_db :
          LET stop_times == _trip_db[trip_id].stop_times
          IN  \A i, j \in DOMAIN stop_times :
                  i < j => stop_times[i].stop_sequence
                              <= stop_times[j].stop_sequence
    /\ C20_LiveAtSmallestSequence

---------------------------------------------------------------------------
(* parse_time as the claims read it.                                       *)

\* The text of the call is HH:MM:SS with HH >= 0.
WellFormed ==
    /\ Len(call.time_str) = 3
    /\ call.time_str[1] >= 0
    /\ call.time_str[2] \in 0..59
    /\ call.time_str[3] \in 0..59

\* C23: for every well-formed text HH:MM:SS with HH >= 0, parse_time returns
\* the datetime whose date is now().date() plus floor(HH / 24) days and whose
\* time of day is (HH mod 24):MM:SS; for HH < 24 the date is now().date().
C23_ParseTimeDayAndTime ==
    (call.op = "parse_time" /\ WellFormed) =>
        /\ call.out.kind = "return"
        /\ DateOf(call.out.value) = DateOf(now) + (call.time_str[1] \div 24)
        /\ call.out.value % SecondsPerDay
              = (call.time_str[1] % 24) * 3600 + call.time_str[2] * 60
                    + call.time_str[3]
        /\ call.time_str[1] < 24 => DateOf(call.out.value) = DateOf(now)

\* parse_time of a text with an hour of 48 or more: two days on.
C23_Witness ==
    /\ call.op = "parse_time"
    /\ WellFormed
    /\ call.time_str[1] >= 48
    /\ call.out.kind = "return"
    /\ DateOf(call.out.value) = DateOf(now) + 2

---------------------------------------------------------------------------
(* make_fetcher as the claims read it.                                     *)

\* The URL of each of the five combinations of provider and environment.
KnownUrls ==
    [c \in {<<"nta", "test">>, <<"nta", "prod">>, <<"vicroads", "metrobus">>,
            <<"vicroads", "metrotrain">>, <<"vicroads", "tram">>} |->
        CASE c = <<"nta", "test">> -> TEST_URL
          [] c = <<"nta", "prod">> -> PROD_URL
          [] c = <<"vicroads", "metrobus">> -> METROBUS_URL
          [] c = <<"vicroads", "metrotrain">> -> METROTRAIN_URL
          [] c = <<"vicroads", "tram">> -> YARRATRAMS_URL]

\* C22 as stated: make_fetcher returns null for every combination of
\* provider and environment that is not one of (nta, test), (nta, prod),
\* (vicroads, metrobus), (vicroads, metrotrain), (vicroads, tram), and a
\* fetcher bound to the matching URL for each of those five.
C22_NullUnlessKnown ==
    call.op = "make_fetcher" =>
        IF <<call.provider, call.env>> \in DOMAIN KnownUrls
        THEN /\ call.out # None
             /\ call.out.url = KnownUrls[<<call.provider, call.env>>]
             /\ call.out.api_key = call.api_key
        ELSE call.out = None

\* The half of it that holds: the five combinations give their URL, and an
\* unknown provider or an unknown environment of vicroads gives null.
C22_NullUnlessKnownOrNta ==
    call.op = "make_fetcher" =>
        IF <<call.provider, call.env>> \in DOMAIN KnownUrls
        THEN /\ call.out # None
             /\ call.out.url = KnownUrls[<<call.provider, call.env>>]
             /\ call.out.api_key = call.api_key
        ELSE call.provider # "nta" => call.out = None

---------------------------------------------------------------------------
(* The stop_time_updates as the claims read them.                          *)

\* The one entity of the feed of the call, and its elements.
TheEntity == call.resp.entity[1]
TheUpdates == TheEntity.trip_update.stop_time_update

\* The number of elements read for the stop_sequence q: those before the
\* first element with a stop_sequence above q.
ReadUpTo(q) ==
    LET past == {n \in DOMAIN TheUpdates : TheUpdates[n].stop_sequence > q}
    IN  IF past = {} THEN Len(TheUpdates) ELSE Min(past) - 1

\* The seconds the elements lo..hi add: the arrival.delay of those that have
\* one.
RECURSIVE DelaysOf(_, _)
DelaysOf(lo, hi) ==
    IF lo > hi THEN 0
    ELSE (IF HasDelay(TheUpdates[lo].arrival)
          THEN TheUpdates[lo].arrival.delay ELSE 0)
         + DelaysOf(lo + 1, hi)

\* The due time of the claim for the scheduled arrival A at stop_sequence q:
\* the instant of the last element read that has an arrival.time, or A when
\* none has, and the delays of the elements read after it.
DueByUpdates(A, q) ==
    LET timed == {n \in 1..ReadUpTo(q) : HasTime(TheUpdates[n].arrival)}
    IN  IF timed = {}
        THEN A + DelaysOf(1, ReadUpTo(q))
        ELSE fromtimestamp(TheUpdates[Max(timed)].arrival.time)
                 + DelaysOf(Max(timed) + 1, ReadUpTo(q))

\* The elements an ADDED trip is built from: those at an interesting stop
\* with a time.
BuiltFrom ==
    {n \in DOMAIN TheUpdates :
        /\ InList(TheUpdates[n].stop_id, call.interesting_stops)
        /\ HasTime(TheUpdates[n].arrival) \/ HasTime(TheUpdates[n].departure)}

\* The arrival of the first StopTime of the built trip: the time of day of
\* the element's instant, on today's date.
BuiltArrival ==
    LET stu == TheUpdates[Min(BuiltFrom)]
        time == IF HasTime(stu.departure) THEN stu.departure.time
                ELSE stu.arrival.time
    IN  DateOf(now) * SecondsPerDay + (fromtimestamp(time) % SecondsPerDay)

\* The one entry of the call is due at this instant.
OneEntryDueAt(due) ==
    /\ Len(call.out.value) = 1
    /\ call.out.value[1].due_in_seconds = due - now
    /\ call.out.value[1].due_time = strftime(due)

\* C24: for a SCHEDULED entity of a trip whose first interesting StopTime has
\* stop_sequence q and scheduled arrival A, the due time get_live reports is
\* A after the elements of stop_time_update read in order while
\* stop_sequence <= q: arrival.delay adds its seconds, arrival.time replaces
\* the value (and wins over the delay of the same element), an element
\* without arrival changes nothing, and no element from the first one with
\* stop_sequence > q on is read.  For a CANCELED and an ADDED entity the due
\* time is A.
C24_DueAfterUpdates ==
    (AskedLive /\ Len(call.resp.entity) = 1
       /\ TheEntity.trip_update # None) =>
        /\ call.out.kind = "return"
        /\ (TripIdOf(TheEntity) \in DOMAIN _trip_db
               /\ InterestingCalls(TripIdOf(TheEntity)) # {}) =>
              LET A == ScheduledArrival(TripIdOf(TheEntity))
                  q == FirstCall(TripIdOf(TheEntity)).stop_sequence
              IN  /\ IsTripUpdate(TheEntity, "SCHEDULED") =>
                        IF now > DueByUpdates(A, q)
                        THEN call.out.value = << >>
                        ELSE OneEntryDueAt(DueByUpdates(A, q))
                  /\ IsTripUpdate(TheEntity, "CANCELED") => OneEntryDueAt(A)
        /\ (IsTripUpdate(TheEntity, "ADDED")
               /\ TripIdOf(TheEntity) \notin DOMAIN _trip_db
               /\ TheEntity.trip_update.trip.route_id \in DOMAIN _route_db) =>
              IF BuiltFrom = {} THEN call.out.value = << >>
              ELSE OneEntryDueAt(BuiltArrival)

\* A SCHEDULED entity with a delay read after a time, and then an element
\* past the stop followed by one at the stop that is not read.
C24_Witness ==
    /\ AskedLive
    /\ Len(call.resp.entity) = 1
    /\ IsTripUpdate(TheEntity, "SCHEDULED")
    /\ call.interesting_stops = <<"P">>
    /\ Len(TheUpdates) = 3
    /\ ReadUpTo(1) = 1
    /\ HasTime(TheUpdates[1].arrival)
    /\ HasDelay(TheUpdates[1].arrival)
    /\ TheUpdates[3].stop_sequence = 1
    /\ HasDelay(TheUpdates[3].arrival)
    /\ call.out.kind = "return"
    /\ OneEntryDueAt(combine(1, 7, 55, 0))

\* A SCHEDULED entity with a time and then a delay, both read.
C24_WitnessTimeThenDelay ==
    /\ AskedLive
    /\ Len(call.resp.entity) = 1
    /\ IsTripUpdate(TheEntity, "SCHEDULED")
    /\ call.interesting_stops = <<"Q">>
    /\ Len(TheUpdates) = 2
    /\ ReadUpTo(2) = 2
    /\ HasTime(TheUpdates[1].arrival)
    /\ ~HasTime(TheUpdates[2].arrival)
    /\ HasDelay(TheUpdates[2].arrival)
    /\ call.out.kind = "return"
    /\ OneEntryDueAt(combine(1, 7, 52, 0))

\* A CANCELED entity with elements that have delays: due as scheduled.
C24_WitnessCanceled ==
    /\ AskedLive
    /\ Len(call.resp.entity) = 1
    /\ IsTripUpdate(TheEntity, "CANCELED")
    /\ call.interesting_stops = <<"P">>
    /\ Len(TheUpdates) > 0
    /\ HasDelay(TheUpdates[1].arrival)
    /\ TheUpdates[1].stop_sequence = 1
    /\ call.out.kind = "return"
    /\ OneEntryDueAt(combine(1, 7, 20, 0))

---------------------------------------------------------------------------
(* The anomalies of the feed as the claims read them.                      *)

\* The entity has no trip_update, or reports a trip the database does not
\* hold without adding it, or has a schedule_relationship that is none of
\* SCHEDULED, CANCELED, ADDED.
Anomalous(entity) ==
    \/ entity.trip_update = None
    \/ /\ get_trip(TripIdOf(entity)) = None
       /\ ~IsTripUpdate(entity, "ADDED")
    \/ entity.trip_update.trip.schedule_relationship
          \notin {"SCHEDULED", "CANCELED", "ADDED"}

\* The feed without its entity at place i.
Without(resp, i) ==
    [entity |-> SubSeq(resp.entity, 1, i - 1)
                    \o SubSeq(resp.entity, i + 1, Len(resp.entity))]

\* C25: an entity without trip_update, an entity of a trip_id the database
\* does not hold that is not ADDED, and an entity whose schedule_relationship
\* is none of SCHEDULED, CANCELED, ADDED yield no entry: get_live raises no
\* error for it and returns what it returns on the feed without the entity.
C25_AnomaliesIgnored ==
    AskedLive =>
        \A i \in DOMAIN call.resp.entity :
            Anomalous(call.resp.entity[i]) =>
                /\ call.out.kind = "return"
                /\ call.out = get_live(Without(call.resp, i),
                                       call.interesting_stops)

\* An entity with an unexpected schedule_relationship before an entity that
\* gives an entry: get_live returns that entry alone.
C25_Witness ==
    /\ AskedLive
    /\ Len(call.resp.entity) = 2
    /\ IsTripUpdate(call.resp.entity[1], "UNSCHEDULED")
    /\ ~Anomalous(call.resp.entity[2])
    /\ call.out.kind = "return"
    /\ Len(call.out.value) = 1

\* The same with an entity without trip_update.
C25_WitnessNoTripUpdate ==
    /\ AskedLive
    /\ Len(call.resp.entity) = 2
    /\ call.resp.entity[1].trip_update = None
    /\ ~Anomalous(call.resp.entity[2])
    /\ call.out.kind = "return"
    /\ Len(call.out.value) = 1

\* The same with a SCHEDULED entity of a trip the database does not hold.
C25_WitnessUnknownTrip ==
    /\ AskedLive
    /\ Len(call.resp.entity) = 2
    /\ IsTripUpdate(call.resp.entity[1], "SCHEDULED")
    /\ get_trip(TripIdOf(call.resp.entity[1])) = None
    /\ ~Anomalous(call.resp.entity[2])
    /\ call.out.kind = "return"
    /\ Len(call.out.value) = 1

---------------------------------------------------------------------------
(* The stop of a live entry as the claims read it.                         *)

\* The entry is at an interesting stop of the call, and when its trip is in
\* the database, at a stop the trip calls at; an entry that is canceled or
\* added is due at the arrival of that StopTime.
AtInterestingStop(entry) ==
    /\ InList(entry.stop_id, call.interesting_stops)
    /\ entry.trip_id \in DOMAIN _trip_db =>
          \E n \in InterestingCalls(entry.trip_id) :
              LET stop_time == _trip_db[entry.trip_id].stop_times[n]
              IN  /\ stop_time.stop_id = entry.stop_id
                  /\ (entry.canceled \/ entry.added_to_schedule) =>
                        entry.due_in_seconds
                            = parse_time(stop_time.arrival_time).value - now

\* C29 as stated: every entry get_live returns has a stop_id of the
\* interesting_stops of the call and a due time derived from the StopTime of
\* that stop, for SCHEDULED, CANCELED and ADDED entities, also when the trip
\* found in the database calls at none of the interesting stops.
C29_StopIsInteresting ==
    (AskedLive /\ call.out.kind = "return") =>
        \A k \in DOMAIN call.out.value : AtInterestingStop(call.out.value[k])

\* The same for the entries of the trips that call at an interesting stop
\* and of the trips built from an ADDED entity.
C29_StopIsInterestingWhenCalled ==
    (AskedLive /\ call.out.kind = "return") =>
        \A k \in DOMAIN call.out.value :
            (call.out.value[k].trip_id \in DOMAIN _trip_db
               => InterestingCalls(call.out.value[k].trip_id) # {})
            => AtInterestingStop(call.out.value[k])

---------------------------------------------------------------------------
(* The SCHEDULE entries of get_upcoming as the claims read them.           *)

\* The places in the feed of the call of the trip_update entities of trip_id.
UpdatesOf(trip_id) ==
    {i \in DOMAIN call.resp.entity :
        /\ call.resp.entity[i].trip_update # None
        /\ TripIdOf(call.resp.entity[i]) = trip_id}

\* C30 as stated: get_upcoming has an entry with source SCHEDULE only for a
\* trip of which the feed carries no trip_update entity; so a trip the feed
\* reports SCHEDULED with an updated arrival before now() is not listed at
\* the time of the schedule.
C30_ScheduleOnlyUnreported ==
    (AskedUpcoming /\ call.out.kind = "return") =>
        \A k \in DOMAIN call.out.value :
            call.out.value[k].source = "SCHEDULE"
                => UpdatesOf(call.out.value[k].trip_id) = {}

\* Its particular case alone: a trip with a SCHEDULED entity whose updated
\* arrival is before now() has no SCHEDULE entry in get_upcoming.
C30_PassedTripNotListed ==
    (AskedUpcoming /\ call.out.kind = "return") =>
        \A trip_id \in {t \in DOMAIN _trip_db : InterestingCalls(t) # {}} :
            (\E i \in Reporting(trip_id, {"SCHEDULED"}) :
                 UpdatedArrivalOf(i) < now)
            => \A k \in EntriesOf(call.out.value, trip_id) :
                   call.out.value[k].source # "SCHEDULE"

\* What holds: a SCHEDULE entry is of a trip that get_live, called by
\* get_upcoming, lists no entry of.
C30_ScheduleOnlyUnlisted ==
    (AskedUpcoming /\ call.out.kind = "return") =>
        \A k \in DOMAIN call.out.value :
            call.out.value[k].source = "SCHEDULE"
                => EntriesOf(call.live.value, call.out.value[k].trip_id) = {}

---------------------------------------------------------------------------
(* The window of get_scheduled as the claims read it.                      *)

\* No entry of get_scheduled is due before now.
DueNotBeforeNow ==
    (call.op = "get_scheduled" /\ call.out.kind = "return") =>
        \A k \in DOMAIN call.out.value :
            0 <= call.out.value[k].due_in_seconds

\* No entry of get_scheduled is due after now + 120 min.
DueNotAfterWindow ==
    (call.op = "get_scheduled" /\ call.out.kind = "return") =>
        \A k \in DOMAIN call.out.value :
            call.out.value[k].due_in_seconds <= 7200

\* C28 as stated: every entry get_scheduled returns has
\* 0 <= due_in_seconds <= 7200, the due instant being the instant that put
\* the trip in the window [now, now + 120 min], also for an arrival_time of
\* hour 24 or more and for a window that crosses midnight.
C28_DueWithinWindow == DueNotBeforeNow /\ DueNotAfterWindow

\* The same when the window ends on the day it starts and the trip has one
\* StopTime at the stop, with an hour below 24.
C28_DueWithinWindowOfDay ==
    (call.op = "get_scheduled" /\ call.out.kind = "return"
       /\ DateOf(now) = DateOf(now + 7200)) =>
        \A k \in DOMAIN call.out.value :
            LET entry == call.out.value[k]
                stop_times == _trip_db[entry.trip_id].stop_times
                at == {n \in DOMAIN stop_times :
                          stop_times[n].stop_id = entry.stop_id}
            IN  (/\ Cardinality(at) = 1
                 /\ \A n \in at : stop_times[n].arrival_time[1] < 24)
                => /\ 0 <= entry.due_in_seconds
                   /\ entry.due_in_seconds <= 7200

---------------------------------------------------------------------------
(* Load against one pass over the file.                                    *)

\* The rows of the chunks from the i-th on, in the order of submission, each
\* chunk read on its own.
RECURSIVE RowsOfChunks(_)
RowsOfChunks(i) ==
    IF i > Len(loading.futures) THEN << >>
    ELSE DictReader(loading.futures[i].string_io) \o RowsOfChunks(i + 1)

\* Every chunk submitted is a copy of the header line followed by at most
\* MaxRowsPerChunk data rows.
ChunksBounded ==
    \A i \in DOMAIN loading.futures :
        LET string_io == loading.futures[i].string_io
        IN  /\ Len(string_io) >= Len(loading.header)
            /\ SubSeq(string_io, 1, Len(loading.header)) = loading.header
            /\ Len(DictReader(string_io)) <= MaxRowsPerChunk

\* Load returned what one pass of load_chunk over the whole file returns:
\* the retained rows in file order and the count of the discarded ones, the
\* rows of the chunks being the data rows of the file, each once.
SameAsOnePass ==
    LoadReturned =>
        LET whole == load_chunk(WithoutBroken(loading.text), loading.keep)
        IN  /\ loading.ret = whole[1]
            /\ loading.discard = whole[2]
            /\ RowsOfChunks(1) = DataRows

\* C26: Load, reading the file in chunks parsed by concurrent workers,
\* returns exactly what a single sequential pass over the file returns, for
\* every file and every interleaving of the workers: every data row is in
\* exactly one chunk, a chunk holds at most MaxRowsPerChunk data rows behind
\* a copy of the header, and the rows come back in file order.
C26_ParallelAsSequential == ChunksBounded /\ SameAsOnePass

---------------------------------------------------------------------------
(* Load ends.                                                              *)

\* The chunks whose load_chunk raised, by their place in futures.
Failed ==
    {i \in DOMAIN loading.futures : loading.futures[i].exception # None}

\* The in-flight slots that are taken: the chunks not completed, the chunk
\* whose done callback is still to run, and the slot the reader holds
\* between acquire and add_done_callback.
SlotsHeld ==
    Cardinality(Outstanding)
    + Cardinality({w \in Workers :
                      /\ loading.workers[w] # 0
                      /\ loading.futures[loading.workers[w]].state
                            = "finished"})
    + (IF loading.pc = "pool_submit" THEN 1 ELSE 0)
    + (IF loading.pc = "add_done_callback"
          /\ loading.futures[Len(loading.futures)].state = "finished"
       THEN 1 ELSE 0)

\* Load has ended: it returned the rows, no chunk having failed, or it raised
\* the error of the first chunk, in the order of submission, that failed.
LoadEnded ==
    \/ loading.pc = "done" /\ Failed = {}
    \/ /\ loading.pc = "raised"
       /\ Failed # {}
       /\ loading.error = loading.futures[Min(Failed)].exception

\* Every slot is free again: nothing is outstanding and the semaphore has its
\* first value.
AllReleased ==
    /\ Outstanding = {}
    /\ loading.sem = SemaphoreValue(MaxThreads)

\* C27: Load does not deadlock.  With every started worker finishing,
\* normally or with an error, and fair scheduling: a reader blocked in submit
\* is eventually released; the slot of a chunk is released on completion,
\* also when its worker failed, so that the slots taken and the free ones
\* are always 2 * MaxThreads - 1 and in the end all are free; and Load
\* eventually returns the rows or raises the error of the first failed chunk.
C27_LoadTerminates ==
    /\ [](loading.sem + SlotsHeld = SemaphoreValue(MaxThreads))
    /\ (loading.pc = "acquire" /\ loading.sem = 0)
          ~> (loading.pc = "pool_submit")
    /\ <>[](LoadEnded /\ AllReleased)

\* The reader was blocked in submit and a chunk in front of it failed.
C27_Witness ==
    /\ loading.pc = "acquire"
    /\ loading.sem = 0
    /\ Failed # {}

\* Load raised the error of a chunk that was not the last to fail, and every
\* slot is free.
C27_WitnessRaised ==
    /\ loading.pc = "raised"
    /\ Cardinality(Failed) > 1
    /\ AllReleased

---------------------------------------------------------------------------
(* The HTTP server.                                                        *)

\* C21: the HTTP server dispatches connections in parallel: a request that
\* has arrived is taken up by a handler, and one whose handler calls no
\* fetch is answered, whatever the handlers of the other connections do, a
\* handler that stays blocked in the realtime fetch included.
C21_ParallelDispatch ==
    \A c \in Connections :
        /\ (c \in Backlog) ~> (c \notin Backlog)
        /\ (c \in Backlog /\ ~Fetches(lookup(http.path[c])))
              ~> (c \in DOMAIN http.pc /\ http.pc[c] = "closed")

\* A request waits for no handler: no connection is in the backlog while a
\* handler is blocked in its fetch and the server cannot accept.
C21_NoWaitBehindFetch ==
    ~(/\ http.serving
      /\ Backlog # {}
      /\ \E c \in Handled : http.pc[c] = "fetch"
      /\ ~ENABLED Accept)

=========================================================================
